---- MODULE Spec2Model ----
(***************************************************************************)
(* A model of langroid's language-model base layer                         *)
(* (langroid/language_models/base.py) and of the task engine its tests     *)
(* drive (tests/main/test_task_tool.py).                                   *)
(*                                                                         *)
(* Groups of state, each with its own specifications:                      *)
(*   SpecRecipient  LLMResponse.get_recipient_and_message on bounded       *)
(*                  responses;                                             *)
(*   SpecUsage      LanguageModel.update_usage_cost / reset_usage_cost,    *)
(*                  called one after the other;                            *)
(*   SpecUsageConc  update_usage_cost run by several threads, bytecode     *)
(*                  step by bytecode step;                                 *)
(*   SpecTask       the task run loop, Done-Sequences, the turn ceiling,   *)
(*                  delegation and the parent chain of its documents;      *)
(*   SpecWire       LLMMessage.api_dict and the turn rebuilt from it;      *)
(*   SpecFromDict   LLMFunctionCall.from_dict and OpenAIToolCall.from_dict *)
(*                  on provider JSON;                                      *)
(*   SpecReasoning  LanguageModel.get_reasoning_final on bounded texts;    *)
(*   SpecCreate     LanguageModel.create;                                  *)
(*   SpecStreaming  nested StreamingIfAllowed contexts;                    *)
(*   SpecHistory    LanguageModel.get_chat_history_components.             *)
(* A specification leaves the other groups' variables at their initial     *)
(* values.                                                                 *)
(***************************************************************************)
EXTENDS Integers, Sequences, FiniteSets, TLC

VARIABLES
    \* ---- recipient resolution
    resp,            \* the LLMResponse under resolution
    result,          \* what get_recipient_and_message returned
    rpc,             \* "input" before the call, "resolved" after it
    \* ---- usage accounting
    usage_cost_dict, \* LanguageModel.usage_cost_dict: model id -> counter object
    heap,            \* the LLMTokenUsage objects, by object id
    log,             \* the calls made so far, and the counters they reset
    tpc,             \* each thread's place in update_usage_cost
    tcounter,        \* each thread's local `counter` (an object id, 0 unset)
    ttmp,            \* each thread's value read for the pending +=
    \* ---- task engine
    tasks,           \* each task's run: configuration, state, history
    docs,            \* the documents produced so far, by document id
    \* ---- wire form of a turn
    turn,            \* the LLMMessage api_dict is called on
    has_system_role, \* the argument of api_dict
    wire,            \* what api_dict returned or raised
    back,            \* the turn rebuilt from the wire form
    wpc,             \* "input", "wired", "rebuilt"
    \* ---- calls built from provider JSON
    raw,             \* the dict handed to from_dict
    built,           \* what from_dict returned or raised
    fpc,             \* "input", "built"
    \* ---- reasoning extraction
    llm_text,        \* the message get_reasoning_final is called on
    reasoning_final, \* what it returned or raised
    epc,             \* "input", "extracted"
    \* ---- the model factory
    config,          \* the configuration LanguageModel.create is given
    created,         \* what create returned or raised
    cpc,             \* "input", "created"
    \* ---- streaming contexts
    settings_stream, \* settings.stream
    llm_stream,      \* each model's stream setting
    contexts,        \* the StreamingIfAllowed contexts entered, innermost last
    unwinding,       \* an exception is on its way out of the contexts
    exited,          \* the context whose __exit__ ran in the last step
    \* ---- components of a chat history
    chat_history,    \* the caller's list of messages
    given,           \* that list as it was handed over
    components,      \* what get_chat_history_components returned
    hpc              \* "input", "returned"

rvars == <<resp, result, rpc>>

uvars == <<usage_cost_dict, heap, log, tpc, tcounter, ttmp>>

kvars == <<tasks, docs>>

wvars == <<turn, has_system_role, wire, back, wpc>>

dvars == <<raw, built, fpc>>

evars == <<llm_text, reasoning_final, epc>>

fvars == <<config, created, cpc>>

svars == <<settings_stream, llm_stream, contexts, unwinding, exited>>

hvars == <<chat_history, given, components, hpc>>

\* the state of the rest of the base layer
bvars == <<wvars, dvars, evars, fvars, svars, hvars>>

vars == <<rvars, uvars, kvars, bvars>>

(***************************************************************************)
(* Values.  Python's None is a value of its own; a text is the sequence of *)
(* its tokens, the empty text "" being the empty sequence.                 *)
(***************************************************************************)
None == "<None>"

\* the dict with no keys
EmptyDict == [k \in {} |-> None]

\* the dict {key: val}
Dict1(key, val) == [k \in {key} |-> val]

\* no turn is being put on the wire, no call is being built
IdleWire ==
    /\ turn = None
    /\ has_system_role = TRUE
    /\ wire = None
    /\ back = None
    /\ wpc = "idle"

IdleFromDict ==
    /\ raw = None
    /\ built = None
    /\ fpc = "idle"

IdleReasoning ==
    /\ llm_text = <<>>
    /\ reasoning_final = None
    /\ epc = "idle"

IdleCreate ==
    /\ config = None
    /\ created = None
    /\ cpc = "idle"

IdleStreaming ==
    /\ settings_stream = TRUE
    /\ llm_stream = <<>>
    /\ contexts = <<>>
    /\ unwinding = FALSE
    /\ exited = None

IdleHistory ==
    /\ chat_history = <<>>
    /\ given = <<>>
    /\ components = None
    /\ hpc = "idle"

\* the rest of the base layer at rest
IdleBase ==
    /\ IdleWire /\ IdleFromDict /\ IdleReasoning /\ IdleCreate /\ IdleStreaming
    /\ IdleHistory

\* dict.get(key, default)
DictGet(d, key, default) == IF key \in DOMAIN d THEN d[key] ELSE default

\* -------------------------------------------------------------------------
\* Bounds of the response space
MaxMsgLen == 3
MaxToolCalls == 2

\* values a `recipient` entry takes: two names, the empty string, null
RecipientValues == {"X", "W", "", None}

\* argument mappings: without `recipient`, or with one of its values
ArgDicts == {EmptyDict} \cup {Dict1("recipient", v) : v \in RecipientValues}

\* LLMFunctionCall: name, arguments (a mapping or None)
NoArgs == [isdict |-> FALSE, d |-> EmptyDict]

DictArgs(d) == [isdict |-> TRUE, d |-> d]

Arguments == {NoArgs} \cup {DictArgs(d) : d \in ArgDicts}

NoCall == [present |-> FALSE, name |-> "", arguments |-> NoArgs]

LLMFunctionCall(name, args) == [present |-> TRUE, name |-> name, arguments |-> args]

FunctionCalls == {LLMFunctionCall("f", a) : a \in Arguments}

\* OpenAIToolCall: its function is an LLMFunctionCall or None
OpenAIToolCall(fn) == [function |-> fn]

ToolCalls == {OpenAIToolCall(fn) : fn \in FunctionCalls \cup {NoCall}}

\* oai_tool_calls: None, or a list of at most MaxToolCalls tool calls
NoToolCalls == [isNone |-> TRUE, calls |-> <<>>]

ToolCallList(s) == [isNone |-> FALSE, calls |-> s]

ToolCallLists ==
    {NoToolCalls} \cup
    {ToolCallList(s) : s \in UNION {[1..n -> ToolCalls] : n \in 0..MaxToolCalls}}

\* Tokens of a message text: the addressing marker "TO:", a word, and a
\* top-level JSON object (with its fields).
TokTO == [kind |-> "to", text |-> "TO:", obj |-> EmptyDict]

TokWord(w) == [kind |-> "word", text |-> w, obj |-> EmptyDict]

TokJson(d) == [kind |-> "json", text |-> "{}", obj |-> d]

Tokens == {TokTO, TokWord("Y"), TokJson(Dict1("recipient", "Z")),
           TokJson(Dict1("request", "r"))}

Messages == UNION {[1..n -> Tokens] : n \in 0..MaxMsgLen}

Responses ==
    [message : Messages,
     function_call : FunctionCalls \cup {NoCall},
     oai_tool_calls : ToolCallLists]

\* -------------------------------------------------------------------------
\* langroid.parsing.agent_chats.parse_message: an addressing prefix
\* "TO: <name> <content>" gives (name, content); anything else ("", msg).
parse_message(msg) ==
    IF Len(msg) >= 2 /\ msg[1].kind = "to" /\ msg[2].kind = "word"
    THEN <<msg[2].text, SubSeq(msg, 3, Len(msg))>>
    ELSE <<"", msg>>

\* langroid.parsing.parse_json.top_level_json_field: the value of field f in
\* the first top-level JSON object of the text that has it, else "".
RECURSIVE top_level_json_field(_, _)
top_level_json_field(msg, f) ==
    IF msg = <<>> THEN ""
    ELSE IF Head(msg).kind = "json" /\ f \in DOMAIN Head(msg).obj
         THEN Head(msg).obj[f]
         ELSE top_level_json_field(Tail(msg), f)

\* The loop of lines 419-425: the recipient of the first tool call, from
\* index i on, that has a function, arguments and a recipient that is
\* neither None nor ""; None when the loop runs off the list.
RECURSIVE FirstToolRecipient(_, _)
FirstToolRecipient(calls, i) ==
    IF i > Len(calls) THEN None
    ELSE LET tc == calls[i]
             recipient == IF tc.function.present /\ tc.function.arguments.isdict
                          THEN DictGet(tc.function.arguments.d, "recipient", None)
                          ELSE None
         IN  IF recipient # None /\ recipient # ""
             THEN recipient
             ELSE FirstToolRecipient(calls, i + 1)

\* Lines 427-437: addressing in the text
TextRecipientAndMessage(msg) ==
    LET parsed == parse_message(msg)
    IN  IF parsed[1] = ""
        THEN [recipient |-> IF msg # <<>> THEN top_level_json_field(msg, "recipient")
                                          ELSE "",
              content |-> msg]
        ELSE [recipient |-> parsed[1], content |-> parsed[2]]

\* A mutant: a function call without a recipient falls through to the
\* addressing found in the text.
get_recipient_and_message_fctext(r) ==
    LET fr == IF r.function_call.present /\ r.function_call.arguments.isdict
              THEN DictGet(r.function_call.arguments.d, "recipient", "")
              ELSE ""
        t == IF r.oai_tool_calls.isNone THEN None
             ELSE FirstToolRecipient(r.oai_tool_calls.calls, 1)
    IN  IF r.function_call.present /\ fr # ""
        THEN [recipient |-> fr, content |-> <<>>]
        ELSE IF t # None
             THEN [recipient |-> t, content |-> <<>>]
             ELSE TextRecipientAndMessage(r.message)

\* A mutant: the scan keeps going and returns the last addressed tool call.
RECURSIVE LastToolRecipient(_, _)
LastToolRecipient(calls, i) ==
    IF i < 1 THEN None
    ELSE LET tc == calls[i]
             recipient == IF tc.function.present /\ tc.function.arguments.isdict
                          THEN DictGet(tc.function.arguments.d, "recipient", None)
                          ELSE None
         IN  IF recipient # None /\ recipient # ""
             THEN recipient
             ELSE LastToolRecipient(calls, i - 1)

get_recipient_and_message_lasttool(r) ==
    IF r.function_call.present
    THEN [recipient |-> IF r.function_call.arguments.isdict
                        THEN DictGet(r.function_call.arguments.d, "recipient", "")
                        ELSE "",
          content |-> <<>>]
    ELSE LET t == IF r.oai_tool_calls.isNone THEN None
                  ELSE LastToolRecipient(r.oai_tool_calls.calls,
                                         Len(r.oai_tool_calls.calls))
         IN  IF t # None
             THEN [recipient |-> t, content |-> <<>>]
             ELSE TextRecipientAndMessage(r.message)

\* A mutant: a response that has tool calls, none of them addressed, returns
\* ("", message) without looking for addressing in the text.
get_recipient_and_message_toolsnotext(r) ==
    IF r.function_call.present
    THEN [recipient |-> IF r.function_call.arguments.isdict
                        THEN DictGet(r.function_call.arguments.d, "recipient", "")
                        ELSE "",
          content |-> <<>>]
    ELSE LET t == IF r.oai_tool_calls.isNone THEN None
                  ELSE FirstToolRecipient(r.oai_tool_calls.calls, 1)
         IN  IF t # None
             THEN [recipient |-> t, content |-> <<>>]
             ELSE IF ~r.oai_tool_calls.isNone /\ r.oai_tool_calls.calls # <<>>
                  THEN [recipient |-> "", content |-> r.message]
                  ELSE TextRecipientAndMessage(r.message)

\* A mutant: the JSON probe runs first and wins over the "TO:" prefix.
get_recipient_and_message_jsonfirst(r) ==
    IF r.function_call.present
    THEN [recipient |-> IF r.function_call.arguments.isdict
                        THEN DictGet(r.function_call.arguments.d, "recipient", "")
                        ELSE "",
          content |-> <<>>]
    ELSE LET t == IF r.oai_tool_calls.isNone THEN None
                  ELSE FirstToolRecipient(r.oai_tool_calls.calls, 1)
             j == top_level_json_field(r.message, "recipient")
         IN  IF t # None
             THEN [recipient |-> t, content |-> <<>>]
             ELSE IF j # ""
                  THEN [recipient |-> j, content |-> r.message]
                  ELSE TextRecipientAndMessage(r.message)

\* LLMResponse.get_recipient_and_message
get_recipient_and_message(r) ==
    IF r.function_call.present
    THEN \* the message is ignored: all information is in function_call
         [recipient |-> IF r.function_call.arguments.isdict
                        THEN DictGet(r.function_call.arguments.d, "recipient", "")
                        ELSE "",
          content |-> <<>>]
    ELSE LET t == IF r.oai_tool_calls.isNone THEN None
                  ELSE FirstToolRecipient(r.oai_tool_calls.calls, 1)
         IN  IF t # None
             THEN [recipient |-> t, content |-> <<>>]
             ELSE TextRecipientAndMessage(r.message)

NoResult == [recipient |-> None, content |-> <<>>]

\* any response of the bounded space, not yet resolved
FreshResponse ==
    /\ resp \in Responses
    /\ result = NoResult
    /\ rpc = "input"

\* no response under resolution
IdleRecipient ==
    /\ resp = [message |-> <<>>, function_call |-> NoCall, oai_tool_calls |-> NoToolCalls]
    /\ result = NoResult
    /\ rpc = "idle"

\* one call of resp.get_recipient_and_message()
Resolve ==
    /\ rpc = "input"
    /\ result' = get_recipient_and_message(resp)
    /\ rpc' = "resolved"
    /\ UNCHANGED <<resp, uvars, kvars, bvars>>

(***************************************************************************)
(* Usage accounting: LanguageModel.usage_cost_dict is one dict of the      *)
(* class, shared by every instance; its values are LLMTokenUsage objects.  *)
(* The cost, a float in the code, is counted here in whole units.          *)
(***************************************************************************)
\* Bounds: calls made in SpecUsage, threads in SpecUsageConc
MaxOps == 3
NThreads == 2

ModelIds == {"m", "k"}

\* config.chat_model and config.completion_model of each instance
Configs ==
    <<[chat_model |-> "m", completion_model |-> None],
      [chat_model |-> "k", completion_model |-> "m"],
      [chat_model |-> None, completion_model |-> "k"]>>

Instances == DOMAIN Configs

\* the (prompts, completions, cost) a call passes
UsageArgs ==
    {[prompts |-> 100, completions |-> 50, cost |-> 3],
     [prompts |-> 20, completions |-> 10, cost |-> 1]}

\* LLMTokenUsage()
ZeroUsage ==
    [prompt_tokens |-> 0, cached_tokens |-> 0, completion_tokens |-> 0,
     cost |-> 0, calls |-> 0]

\* LLMTokenUsage.reset
LLMTokenUsage_reset(c) ==
    [c EXCEPT !.prompt_tokens = 0, !.cached_tokens = 0, !.completion_tokens = 0,
              !.cost = 0, !.calls = 0]

\* d[k] = v
DictSet(d, k, v) == [x \in DOMAIN d \cup {k} |-> IF x = k THEN v ELSE d[x]]

\* a log entry: a call of update_usage_cost or reset_usage_cost, or one
\* counter.reset() a reset_usage_cost call made
LogUpdate(inst, chat, a) ==
    [op |-> "update_usage_cost", inst |-> inst, chat |-> chat, prompts |-> a.prompts,
     completions |-> a.completions, cost |-> a.cost, mdl |-> None]

LogResetCall(inst) ==
    [op |-> "reset_usage_cost", inst |-> inst, chat |-> FALSE, prompts |-> 0,
     completions |-> 0, cost |-> 0, mdl |-> None]

LogCounterReset(mdl) ==
    [op |-> "counter.reset", inst |-> 0, chat |-> FALSE, prompts |-> 0,
     completions |-> 0, cost |-> 0, mdl |-> mdl]

\* the calls in a log
NCalls(l) ==
    Cardinality({i \in 1..Len(l) : l[i].op \in {"update_usage_cost", "reset_usage_cost"}})

\* `if mdl not in self.usage_cost_dict: self.usage_cost_dict[mdl] = LLMTokenUsage()`
\* on the store st = [dict, heap, log]
EnsureCounter(st, mdl) ==
    IF mdl \in DOMAIN st.dict THEN st
    ELSE [st EXCEPT !.heap = Append(@, ZeroUsage),
                    !.dict = DictSet(@, mdl, Len(st.heap) + 1)]

\* A mutant: the counter is created anew on every call
update_usage_cost_overwrite(st, inst, chat, prompts, completions, cost) ==
    LET mdl == IF chat THEN Configs[inst].chat_model ELSE Configs[inst].completion_model
    IN  IF mdl = None THEN st
        ELSE LET st1 == [st EXCEPT !.heap = Append(@, ZeroUsage),
                                   !.dict = DictSet(@, mdl, Len(st.heap) + 1)]
                 counter == st1.dict[mdl]
             IN  [st1 EXCEPT !.heap[counter] =
                     [@ EXCEPT !.prompt_tokens = @ + prompts,
                               !.completion_tokens = @ + completions,
                               !.cost = @ + cost,
                               !.calls = @ + 1]]

\* LanguageModel.update_usage_cost
update_usage_cost(st, inst, chat, prompts, completions, cost) ==
    LET mdl == IF chat THEN Configs[inst].chat_model ELSE Configs[inst].completion_model
    IN  IF mdl = None THEN st
        ELSE LET st1 == EnsureCounter(st, mdl)
                 counter == st1.dict[mdl]
             IN  [st1 EXCEPT !.heap[counter] =
                     [@ EXCEPT !.prompt_tokens = @ + prompts,
                               !.completion_tokens = @ + completions,
                               !.cost = @ + cost,
                               !.calls = @ + 1]]

\* the loop of LanguageModel.reset_usage_cost over the model ids left
RECURSIVE ResetLoop(_, _)
ResetLoop(st, mdls) ==
    IF mdls = <<>> THEN st
    ELSE IF Head(mdls) = None THEN st
    ELSE LET st1 == EnsureCounter(st, Head(mdls))
             counter == st1.dict[Head(mdls)]
         IN  ResetLoop([st1 EXCEPT !.heap[counter] = LLMTokenUsage_reset(@),
                                   !.log = Append(@, LogCounterReset(Head(mdls)))],
                       Tail(mdls))

\* LanguageModel.reset_usage_cost
reset_usage_cost(st, inst) ==
    ResetLoop(st, <<Configs[inst].chat_model, Configs[inst].completion_model>>)

\* ---- threads (SpecUsageConc)
Threads == 1..NThreads

\* the model id all threads update
SharedModel == "m"

\* thread t's call: odd threads through instance 1's chat model, even ones
\* through instance 2's completion model, both "m"
ThreadCall(t) ==
    IF t % 2 = 1
    THEN [inst |-> 1, chat |-> TRUE, prompts |-> 100, completions |-> 50, cost |-> 3]
    ELSE [inst |-> 2, chat |-> FALSE, prompts |-> 20, completions |-> 10, cost |-> 1]

ThreadModel(t) ==
    IF ThreadCall(t).chat THEN Configs[ThreadCall(t).inst].chat_model
    ELSE Configs[ThreadCall(t).inst].completion_model

\* the fields lines 704-707 add to, in order, and what is added
UpdatedFields == <<"prompt_tokens", "completion_tokens", "cost", "calls">>

ThreadDelta(t, f) ==
    CASE f = 1 -> ThreadCall(t).prompts
      [] f = 2 -> ThreadCall(t).completions
      [] f = 3 -> ThreadCall(t).cost
      [] OTHER -> 1

\* a thread's place: a statement, and the field of the += under way
At(stmt, f) == [at |-> stmt, f |-> f]

IdleThreads ==
    /\ tpc = [t \in Threads |-> At("idle", 0)]
    /\ tcounter = [t \in Threads |-> 0]
    /\ ttmp = [t \in Threads |-> 0]

\* no usage recorded, no thread running
IdleUsage ==
    /\ usage_cost_dict = EmptyDict
    /\ heap = <<>>
    /\ log = <<>>
    /\ IdleThreads

(***************************************************************************)
(* The task engine (langroid.agent.task, langroid.agent.chat_agent and     *)
(* langroid.agent.tools.task_tool; the tests in tests/main/                *)
(* test_task_tool.py drive it): the run loop over turns of kind L (LLM     *)
(* text), T (tool call emitted), A (the agent's answer to a tool call) and *)
(* U (user), Done-Sequences, the turn ceiling, the terminal tool, and      *)
(* delegation to a child task with the parent chain of the documents.      *)
(* A run in which the model endpoint fails is left out.                    *)
(***************************************************************************)
\* Bounds: tasks alive in one run, and the turns a task with no ceiling is
\* followed for
MaxTasks == 2
MaxTurns == 3

TaskIds == 1..MaxTasks

DelegationTool == "task_tool"

TerminalTool == "done_tool"

\* the tool kinds declared in the run
AllTools == {DelegationTool, TerminalTool, "multiplier_tool"}

\* enable_message([TaskTool, MultiplierTool], use=True, handle=True) on the
\* main agent; the terminal tool is recognized by every agent
MainTools == {DelegationTool, "multiplier_tool", TerminalTool}

\* done_sequences of the main task: none, ["T,A"], ["A,L", "U"]
MainPolicies == {{}, {<<"T", "A">>}, {<<"A", "L">>, <<"U">>}}

\* `turns` of the main task's run: 0 is no ceiling
MainCeilings == {0, 3}

\* the `tools` and `max_iterations` a delegation call carries
DelegationToolArgs == {"ALL", "NONE", "multiplier_tool"}

DelegationMaxIterations == {2, 4}

\* the tools of a child agent: none but the terminal tool under "NONE", the
\* parent's under "ALL", else those of the allowlist the parent has
ChildToolsAll(parentTools, toolsArg) == parentTools \cup {TerminalTool}

ChildToolsNoTerminal(parentTools, toolsArg) ==
    IF toolsArg = "NONE" THEN {}
    ELSE IF toolsArg = "ALL" THEN parentTools
    ELSE {toolsArg} \cap parentTools

ChildTools(parentTools, toolsArg) ==
    IF toolsArg = "NONE" THEN {TerminalTool}
    ELSE IF toolsArg = "ALL" THEN parentTools \cup {TerminalTool}
    ELSE ({toolsArg} \cap parentTools) \cup {TerminalTool}

\* A mutant: only the last event of a Done-Sequence is compared
MatchesLastOnly(policy, history) ==
    \E seq \in policy :
        /\ Len(seq) >= 1
        /\ Len(history) >= 1
        /\ history[Len(history)] = seq[Len(seq)]

\* the trailing window of the history equals one of the Done-Sequences
MatchesDoneSequence(policy, history) ==
    \E seq \in policy :
        /\ Len(seq) <= Len(history)
        /\ SubSeq(history, Len(history) - Len(seq) + 1, Len(history)) = seq

\* a task that was never started
UnbornTask ==
    [status |-> "unborn", history |-> <<>>, turns |-> 0, policy |-> {}, ceiling |-> 0,
     result |-> 0, pending |-> 0, tools |-> {}, spawner |-> 0, calldoc |-> 0,
     toolsArg |-> "", child |-> 0]

\* Task(agent, config=TaskConfig(done_sequences=policy)).run(msg, turns=ceiling)
NewTask(policy, ceiling, tools, root, spawner, calldoc, toolsArg) ==
    [status |-> "running", history |-> <<>>, turns |-> 0, policy |-> policy,
     ceiling |-> ceiling, result |-> 0, pending |-> root, tools |-> tools,
     spawner |-> spawner, calldoc |-> calldoc, toolsArg |-> toolsArg, child |-> 0]

\* a document: the task that holds it, its turn kind, the tool it calls or
\* answers, its parent document (0: none), whether it reports a rejected
\* call, and the document it is a deep copy of (0: none)
Document(task, kind, tool, parent, rejected) ==
    [task |-> task, kind |-> kind, tool |-> tool, parent |-> parent,
     rejected |-> rejected, copy_of |-> 0]

\* A mutant: the copy starts a chain of its own
DeepCopyNoParent(ds, d, task) ==
    [ds[d] EXCEPT !.task = task, !.copy_of = d, !.parent = 0]

\* the deep copy of document d made for `task`: the parent pointer is kept
DeepCopy(ds, d, task) == [ds[d] EXCEPT !.task = task, !.copy_of = d]

\* A mutant: the ceiling is tested before the turn is counted
CeilingReachedLate(t, n) == t.ceiling > 0 /\ n > t.ceiling

\* the run has used up its turns
CeilingReached(t, n) == t.ceiling > 0 /\ n >= t.ceiling

\* One iteration of the run loop of task record t: the turn's kind is
\* recorded, then the Done-Sequences, the terminal tool and the ceiling are
\* looked at; a task that is done keeps the turn's document as its result.
RecordTurn(t, kind, doc, terminal) ==
    LET h == Append(t.history, kind)
        n == t.turns + 1
        done == \/ terminal
                \/ MatchesDoneSequence(t.policy, h)
                \/ CeilingReached(t, n)
    IN  [t EXCEPT !.history = h, !.turns = n, !.pending = doc, !.child = 0,
                  !.status = IF done THEN "completed" ELSE "running",
                  !.result = IF done THEN doc ELSE 0]

\* the task may take another turn
CanTurn(k) ==
    /\ tasks[k].status = "running"
    /\ tasks[k].turns < (IF tasks[k].ceiling > 0 THEN tasks[k].ceiling ELSE MaxTurns)

\* the next unused task id
FreeTaskId == 1 + Cardinality({k \in TaskIds : tasks[k].status # "unborn"})

IdleTask ==
    /\ tasks = [k \in TaskIds |-> UnbornTask]
    /\ docs = <<>>

\* task.run(msg): the main task, seeded with the invoking prompt
InitTask ==
    /\ IdleRecipient
    /\ IdleUsage
    /\ IdleBase
    /\ docs = <<Document(1, "U", "", 0, FALSE)>>
    /\ \E policy \in MainPolicies, ceiling \in MainCeilings :
           tasks = [k \in TaskIds |->
                       IF k = 1 THEN NewTask(policy, ceiling, MainTools, 1, 0, 0, "")
                       ELSE UnbornTask]

\* the LLM answers with plain text
LLMText(k) ==
    /\ CanTurn(k)
    /\ docs[tasks[k].pending].kind # "T"
    /\ docs' = Append(docs, Document(k, "L", "", tasks[k].pending, FALSE))
    /\ tasks' = [tasks EXCEPT ![k] = RecordTurn(@, "L", Len(docs) + 1, FALSE)]
    /\ UNCHANGED <<rvars, uvars, bvars>>

\* the LLM emits a call of tool t, enabled for its agent or not
LLMTool(k, t) ==
    /\ CanTurn(k)
    /\ docs[tasks[k].pending].kind # "T"
    /\ t = DelegationTool => FreeTaskId <= MaxTasks
    /\ docs' = Append(docs, Document(k, "T", t, tasks[k].pending, FALSE))
    /\ tasks' = [tasks EXCEPT ![k] = RecordTurn(@, "T", Len(docs) + 1, FALSE)]
    /\ UNCHANGED <<rvars, uvars, bvars>>

\* the user answers the LLM's text; a delegated sub-task runs without a user
UserTurn(k) ==
    /\ CanTurn(k)
    /\ tasks[k].spawner = 0
    /\ docs[tasks[k].pending].kind = "L"
    /\ docs' = Append(docs, Document(k, "U", "", tasks[k].pending, FALSE))
    /\ tasks' = [tasks EXCEPT ![k] = RecordTurn(@, "U", Len(docs) + 1, FALSE)]
    /\ UNCHANGED <<rvars, uvars, bvars>>

\* the agent answers the pending tool call: a tool it has not enabled is
\* rejected, the terminal tool ends the task, any other tool is run
AgentHandle(k) ==
    /\ CanTurn(k)
    /\ docs[tasks[k].pending].kind = "T"
    /\ LET t == docs[tasks[k].pending].tool
           enabled == t \in tasks[k].tools
       IN  /\ ~(enabled /\ t = DelegationTool)
           /\ docs' = Append(docs, Document(k, "A", t, tasks[k].pending, ~enabled))
           /\ tasks' = [tasks EXCEPT ![k] =
                           RecordTurn(@, "A", Len(docs) + 1, enabled /\ t = TerminalTool)]
    /\ UNCHANGED <<rvars, uvars, bvars>>

\* the agent handles a delegation call: a prompt document whose parent is
\* the call is made and deep-copied into a new child task, which runs with
\* the requested tools and max_iterations while the parent waits
Delegate(k) ==
    /\ CanTurn(k)
    /\ docs[tasks[k].pending].kind = "T"
    /\ docs[tasks[k].pending].tool = DelegationTool
    /\ DelegationTool \in tasks[k].tools
    /\ FreeTaskId <= MaxTasks
    /\ \E toolsArg \in DelegationToolArgs, max_iterations \in DelegationMaxIterations :
        LET c == FreeTaskId
            call == tasks[k].pending
            prompt == Document(k, "U", "", call, FALSE)
            docs1 == Append(docs, prompt)
            docs2 == Append(docs1, DeepCopy(docs1, Len(docs1), c))
        IN  /\ docs' = docs2
            /\ tasks' = [tasks EXCEPT
                   ![k].status = "waiting",
                   ![k].child = c,
                   ![c] = NewTask({}, max_iterations,
                                  ChildTools(tasks[k].tools, toolsArg),
                                  Len(docs2), k, call, toolsArg)]
    /\ UNCHANGED <<rvars, uvars, bvars>>

\* the child task is done: its result document is deep-copied into the
\* parent's history as the answer to the delegation call
ChildReturn(k) ==
    /\ tasks[k].status = "waiting"
    /\ tasks[k].child # 0
    /\ tasks[tasks[k].child].status = "completed"
    /\ LET c == tasks[k].child
           answer == [DeepCopy(docs, tasks[c].result, k) EXCEPT
                          !.kind = "A", !.tool = DelegationTool, !.rejected = FALSE]
       IN  /\ docs' = Append(docs, answer)
           /\ tasks' = [tasks EXCEPT ![k] = RecordTurn(@, "A", Len(docs) + 1, FALSE)]
    /\ UNCHANGED <<rvars, uvars, bvars>>

NextTask ==
    \E k \in TaskIds :
        \/ LLMText(k)
        \/ \E t \in AllTools : LLMTool(k, t)
        \/ UserTurn(k)
        \/ AgentHandle(k)
        \/ Delegate(k)
        \/ ChildReturn(k)

SpecTask == InitTask /\ [][NextTask]_vars

\* the run loop goes on while a turn can be taken
SpecTaskFair == SpecTask /\ WF_vars(NextTask)

InitUsage == IdleUsage /\ IdleRecipient /\ IdleTask /\ IdleBase

\* a call of update_usage_cost through any instance
UpdateUsageCost ==
    /\ NCalls(log) < MaxOps
    /\ \E inst \in Instances, chat \in BOOLEAN, a \in UsageArgs :
        LET st == update_usage_cost(
                      [dict |-> usage_cost_dict, heap |-> heap,
                       log |-> Append(log, LogUpdate(inst, chat, a))],
                      inst, chat, a.prompts, a.completions, a.cost)
        IN  /\ usage_cost_dict' = st.dict
            /\ heap' = st.heap
            /\ log' = st.log
    /\ UNCHANGED <<tpc, tcounter, ttmp, rvars, kvars, bvars>>

\* a call of reset_usage_cost through any instance
ResetUsageCost ==
    /\ NCalls(log) < MaxOps
    /\ \E inst \in Instances :
        LET st == reset_usage_cost(
                      [dict |-> usage_cost_dict, heap |-> heap,
                       log |-> Append(log, LogResetCall(inst))],
                      inst)
        IN  /\ usage_cost_dict' = st.dict
            /\ heap' = st.heap
            /\ log' = st.log
    /\ UNCHANGED <<tpc, tcounter, ttmp, rvars, kvars, bvars>>

NextUsage == UpdateUsageCost \/ ResetUsageCost

SpecUsage == InitUsage /\ [][NextUsage]_vars

\* ---- update_usage_cost, one step of one thread at a time
\* Every thread is about to test `mdl not in self.usage_cost_dict`; the
\* counter of "m" exists already, or not yet.
InitUsageConc ==
    /\ IdleRecipient
    /\ IdleTask
    /\ IdleBase
    /\ log = <<>>
    /\ \/ usage_cost_dict = EmptyDict /\ heap = <<>>
       \/ usage_cost_dict = Dict1(SharedModel, 1) /\ heap = <<ZeroUsage>>
    /\ tpc = [t \in Threads |-> At("check", 0)]
    /\ tcounter = [t \in Threads |-> 0]
    /\ ttmp = [t \in Threads |-> 0]

\* line 701: if mdl not in self.usage_cost_dict
TCheck(t) ==
    /\ tpc[t].at = "check"
    /\ tpc' = [tpc EXCEPT ![t] =
                  IF ThreadModel(t) \in DOMAIN usage_cost_dict
                  THEN At("get", 0) ELSE At("create", 0)]
    /\ UNCHANGED <<usage_cost_dict, heap, log, tcounter, ttmp, rvars, kvars, bvars>>

\* line 702: self.usage_cost_dict[mdl] = LLMTokenUsage()
TCreate(t) ==
    /\ tpc[t].at = "create"
    /\ heap' = Append(heap, ZeroUsage)
    /\ usage_cost_dict' = DictSet(usage_cost_dict, ThreadModel(t), Len(heap) + 1)
    /\ tpc' = [tpc EXCEPT ![t] = At("get", 0)]
    /\ UNCHANGED <<log, tcounter, ttmp, rvars, kvars, bvars>>

\* line 703: counter = self.usage_cost_dict[mdl]
TGet(t) ==
    /\ tpc[t].at = "get"
    /\ tcounter' = [tcounter EXCEPT ![t] = usage_cost_dict[ThreadModel(t)]]
    /\ tpc' = [tpc EXCEPT ![t] = At("read", 1)]
    /\ UNCHANGED <<usage_cost_dict, heap, log, ttmp, rvars, kvars, bvars>>

\* lines 704-707, the load of `counter.<field> += x`
TRead(t) ==
    /\ tpc[t].at = "read"
    /\ ttmp' = [ttmp EXCEPT ![t] = heap[tcounter[t]][UpdatedFields[tpc[t].f]]]
    /\ tpc' = [tpc EXCEPT ![t] = At("write", tpc[t].f)]
    /\ UNCHANGED <<usage_cost_dict, heap, log, tcounter, rvars, kvars, bvars>>

\* lines 704-707, the add and the store of `counter.<field> += x`
TWrite(t) ==
    /\ tpc[t].at = "write"
    /\ heap' = [heap EXCEPT ![tcounter[t]][UpdatedFields[tpc[t].f]] =
                                ttmp[t] + ThreadDelta(t, tpc[t].f)]
    /\ tpc' = [tpc EXCEPT ![t] =
                  IF tpc[t].f < Len(UpdatedFields)
                  THEN At("read", tpc[t].f + 1) ELSE At("done", 0)]
    /\ UNCHANGED <<usage_cost_dict, log, tcounter, ttmp, rvars, kvars, bvars>>

NextUsageConc ==
    \E t \in Threads : TCheck(t) \/ TCreate(t) \/ TGet(t) \/ TRead(t) \/ TWrite(t)

SpecUsageConc == InitUsageConc /\ [][NextUsageConc]_vars

InitRecipient == FreshResponse /\ IdleUsage /\ IdleTask /\ IdleBase

SpecRecipient == InitRecipient /\ [][Resolve]_vars


(***************************************************************************)
(* The wire form of a turn: LLMMessage.api_dict, and the way back through  *)
(* LLMFunctionCall.from_dict and OpenAIToolCall.from_dict.  A string is    *)
(* the sequence of its tokens; the argument blob of a call is a JSON text. *)
(***************************************************************************)
\* Bound: the tool calls one turn carries
MaxTurnCalls == 2

\* tokens of a JSON text
Punct(c) == [t |-> "punct", s |-> c]

StrTok(x) == [t |-> "string", s |-> x]

Lit(x) == [t |-> "literal", s |-> x]

NL == [t |-> "space", s |-> "newline"]

SP == [t |-> "space", s |-> "blank"]

\* the keys of an argument mapping, in the order the mapping holds them
ArgKeys == <<"recipient", "request">>

\* json.dumps of a value of a mapping
DumpValue(v) == IF v = None THEN Lit("null") ELSE StrTok(v)

\* json.dumps of the items of mapping d under the keys left
RECURSIVE DumpItems(_, _)
DumpItems(d, keys) ==
    IF keys = <<>> THEN <<>>
    ELSE IF Head(keys) \notin DOMAIN d THEN DumpItems(d, Tail(keys))
    ELSE LET rest == DumpItems(d, Tail(keys))
         IN  <<StrTok(Head(keys)), Punct(":"), SP, DumpValue(d[Head(keys)])>>
             \o (IF rest = <<>> THEN <<>> ELSE <<Punct(","), SP>> \o rest)

\* json.dumps(arguments): "null" for None, "{...}" for a mapping
json_dumps(args) ==
    IF ~args.isdict THEN <<Lit("null")>>
    ELSE <<Punct("{")>> \o DumpItems(args.d, ArgKeys) \o <<Punct("}")>>

\* str.replace("\n", "")
RemoveNewlines(s) == SelectSeq(s, LAMBDA x : x # NL)

\* str.strip()
RECURSIVE Strip(_)
Strip(s) ==
    IF s = <<>> THEN s
    ELSE IF Head(s).t = "space" THEN Strip(Tail(s))
    ELSE IF s[Len(s)].t = "space" THEN Strip(SubSeq(s, 1, Len(s) - 1))
    ELSE s

\* what a parse gives: the Python type of the value, and the mapping when
\* it is one; "fail" when the text cannot be parsed
Parsed(kind, d) == [kind |-> kind, d |-> d]

\* the items "key": value, ... of an object; values are strings or null
RECURSIVE ParseItems(_)
ParseItems(toks) ==
    IF toks = <<>> THEN [ok |-> TRUE, d |-> EmptyDict]
    ELSE IF /\ Len(toks) >= 3
            /\ toks[1].t = "string"
            /\ toks[2] = Punct(":")
            /\ (toks[3].t = "string" \/ toks[3] = Lit("null"))
         THEN LET v == IF toks[3].t = "string" THEN toks[3].s ELSE None
                  rest == SubSeq(toks, 4, Len(toks))
                  r == IF rest = <<>> THEN [ok |-> TRUE, d |-> EmptyDict]
                       ELSE IF Head(rest) = Punct(",") THEN ParseItems(Tail(rest))
                       ELSE [ok |-> FALSE, d |-> EmptyDict]
              IN  IF r.ok
                  THEN [ok |-> TRUE,
                        d |-> [k \in DOMAIN r.d \cup {toks[1].s} |->
                                  IF k \in DOMAIN r.d THEN r.d[k] ELSE v]]
                  ELSE r
         ELSE [ok |-> FALSE, d |-> EmptyDict]

\* langroid.parsing.parse_json.parse_imperfect_json: a best-effort parse of
\* a JSON text, white space aside; an object whose closing brace is missing
\* is repaired.
parse_imperfect_json(str) ==
    LET s == SelectSeq(str, LAMBDA x : x.t # "space")
    IN  IF s = <<>> THEN Parsed("fail", EmptyDict)
        ELSE IF s[1] = Punct("{")
             THEN LET body == IF s[Len(s)] = Punct("}")
                              THEN SubSeq(s, 2, Len(s) - 1)
                              ELSE SubSeq(s, 2, Len(s))
                      r == ParseItems(body)
                  IN  IF r.ok THEN Parsed("dict", r.d) ELSE Parsed("fail", EmptyDict)
        ELSE IF s = <<Punct("["), Punct("]")>> THEN Parsed("list", EmptyDict)
        ELSE IF Len(s) = 1 /\ s[1].t = "string" THEN Parsed("str", EmptyDict)
        ELSE IF s = <<Lit("null")>> THEN Parsed("NoneType", EmptyDict)
        ELSE IF s = <<Lit("true")>> THEN Parsed("bool", EmptyDict)
        ELSE IF s = <<Lit("1")>> THEN Parsed("int", EmptyDict)
        ELSE Parsed("fail", EmptyDict)

\* the `arguments` entry of a call on the wire or in d: an object (None or
\* a mapping), or a string
ArgObj(args) == [form |-> "obj", obj |-> args, str |-> <<>>]

ArgStr(s) == [form |-> "str", obj |-> NoArgs, str |-> s]

\* what a call returns or raises
Returns(v, argtype) == [raised |-> None, value |-> v, argtype |-> argtype]

Raises(e, v) == [raised |-> e, value |-> v, argtype |-> None]

\* A mutant: the parsed value is stored whatever its type
LLMFunctionCall_from_dict_anytype(message) ==
    IF message.arguments = ArgObj(NoArgs)
    THEN Returns(LLMFunctionCall(message.name, NoArgs), "NoneType")
    ELSE LET fun_args_str == Strip(RemoveNewlines(message.arguments.str))
             dict_or_list == parse_imperfect_json(fun_args_str)
         IN  IF dict_or_list.kind = "fail" THEN Raises("ValueError", NoCall)
             ELSE Returns(LLMFunctionCall(message.name,
                              IF dict_or_list.kind = "dict"
                              THEN DictArgs(dict_or_list.d) ELSE NoArgs),
                          dict_or_list.kind)

\* LLMFunctionCall.from_dict; argtype is the type of the arguments of the
\* call returned
LLMFunctionCall_from_dict(message) ==
    IF message.arguments = ArgObj(NoArgs)
    THEN Returns(LLMFunctionCall(message.name, NoArgs), "NoneType")
    ELSE IF message.arguments.form # "str" THEN Raises("AttributeError", NoCall)
    ELSE LET fun_args_str == Strip(RemoveNewlines(message.arguments.str))
             dict_or_list == parse_imperfect_json(fun_args_str)
         IN  IF dict_or_list.kind = "fail" THEN Raises("ValueError", NoCall)
             ELSE IF dict_or_list.kind # "dict" THEN Raises("ValueError", NoCall)
             ELSE Returns(LLMFunctionCall(message.name, DictArgs(dict_or_list.d)), "dict")

\* an OpenAIToolCall with its id and type
ToolCallWithId(id, fn) == [id |-> id, type |-> "function", function |-> fn]

NoToolCall == ToolCallWithId(None, NoCall)

\* OpenAIToolCall.from_dict
OpenAIToolCall_from_dict(message) ==
    LET function == LLMFunctionCall_from_dict(message.function)
    IN  IF function.raised # None THEN Raises(function.raised, NoToolCall)
        ELSE Returns([id |-> message.id, type |-> message.type,
                      function |-> function.value],
                     function.argtype)

\* ---- LLMMessage
Roles == {"user", "system", "assistant", "function", "tool"}

\* texts of a turn: "" and one word
Contents == {<<>>, <<"hi">>}

\* the prefix api_dict puts before the text of a recoded system turn
SystemMarker == "[ADDITIONAL SYSTEM MESSAGE:]"

\* argument mappings of the calls a turn carries
TwoArgs == [k \in {"recipient", "request"} |-> IF k = "recipient" THEN "X" ELSE "r"]

TurnFunctionCalls ==
    {LLMFunctionCall("f", NoArgs), LLMFunctionCall("f", DictArgs(EmptyDict)),
     LLMFunctionCall("g", DictArgs(TwoArgs))}

\* tool calls: with arguments, with None as arguments, with no function
TurnToolCalls ==
    {ToolCallWithId("c1", LLMFunctionCall("g", DictArgs(Dict1("recipient", None)))),
     ToolCallWithId(None, LLMFunctionCall("f", NoArgs)),
     ToolCallWithId("c2", NoCall)}

TurnToolCallLists ==
    {NoToolCalls} \cup
    {ToolCallList(s) : s \in UNION {[1..n -> TurnToolCalls] : n \in 0..MaxTurnCalls}}

\* the fields only this program reads: tool_id, timestamp, chat_document_id
InternalFields ==
    {[tool_id |-> "", timestamp |-> "t0", chat_document_id |-> ""],
     [tool_id |-> "a1", timestamp |-> "t1", chat_document_id |-> "doc1"]}

LLMMessages ==
    [role : Roles,
     name : {None, "", "n"},
     tool_call_id : {None, "c1"},
     internal : InternalFields,
     content : Contents,
     files : {<<>>, <<"a.pdf">>},
     function_call : TurnFunctionCalls \cup {NoCall},
     tool_calls : TurnToolCallLists]

\* the content entry of d: a string, or an array of content parts
ContentText(s) == [isArray |-> FALSE, text |-> s, parts |-> <<>>]

ContentParts(ps) == [isArray |-> TRUE, text |-> <<>>, parts |-> ps]

TextPart(s) == [type |-> "text", text |-> s]

\* langroid.parsing.file_attachment.FileAttachment.to_dict: the content
\* part of one attachment
FileAttachment_to_dict(f, model) == [type |-> "file", text |-> <<f, model>>]

\* BaseModel.dict() of a call: a new dict {name, arguments}, or None
CallDict(fc) ==
    [isNone |-> ~fc.present, name |-> fc.name, arguments |-> ArgObj(fc.arguments)]

\* BaseModel.dict() of a list of tool calls
ToolCallsDict(tcs) ==
    [isNone |-> tcs.isNone,
     calls |-> [i \in DOMAIN tcs.calls |->
                   [id |-> tcs.calls[i].id, type |-> tcs.calls[i].type,
                    function |-> CallDict(tcs.calls[i].function)]]]

\* self.dict(): a new dict with every field of the turn
LLMMessage_dict(self) ==
    [k \in {"role", "name", "tool_call_id", "tool_id", "content", "files",
            "function_call", "tool_calls", "timestamp", "chat_document_id"} |->
        CASE k = "role" -> self.role
          [] k = "name" -> self.name
          [] k = "tool_call_id" -> self.tool_call_id
          [] k = "tool_id" -> self.internal.tool_id
          [] k = "content" -> ContentText(self.content)
          [] k = "files" -> self.files
          [] k = "function_call" -> CallDict(self.function_call)
          [] k = "tool_calls" -> ToolCallsDict(self.tool_calls)
          [] k = "timestamp" -> self.internal.timestamp
          [] OTHER -> self.internal.chat_document_id]

\* A mutant: d holds the turn's own function call, not a copy
SharedFunctionCall == {"function_call"}

\* the entries of d whose value is the turn's own object and not a copy of
\* it: none, BaseModel.dict() builds new dicts and lists all the way down
SharedWithSelf == {}

\* the turn after lines 320-323 have written to d
WriteBack(self, d) ==
    IF "function_call" \in SharedWithSelf /\ "function_call" \in DOMAIN d
    THEN [self EXCEPT !.function_call.arguments = d["function_call"].arguments]
    ELSE self

\* v is None, for the value v of key k
IsNone(k, v) ==
    CASE k \in {"function_call", "tool_calls"} -> v.isNone
      [] k \in {"content", "files"} -> FALSE
      [] OTHER -> v = None

\* d without the keys in ks: dict.pop, del
Without(d, ks) == [k \in DOMAIN d \ ks |-> d[k]]

\* lines 320-323 and 327-331: arguments = json.dumps(arguments)
DumpArguments(fn) == [fn EXCEPT !.arguments = ArgStr(json_dumps(fn.arguments.obj))]

\* the loop of lines 326-331 from tool call i on: "TypeError" at a tool
\* call whose function is None, else the calls with their arguments dumped
RECURSIVE DumpToolCalls(_, _)
DumpToolCalls(calls, i) ==
    IF i > Len(calls) THEN [raised |-> None, calls |-> calls]
    ELSE IF calls[i].function.isNone THEN [raised |-> "TypeError", calls |-> calls]
    ELSE DumpToolCalls([calls EXCEPT ![i].function = DumpArguments(@)], i + 1)

\* what api_dict returns (d) or raises, and the turn as the call leaves it
ApiResult(raised, d, self) == [raised |-> raised, d |-> d, self |-> self]

\* lines 295-312 of api_dict
ApiDictHead(self, model, system_role) ==
    LET d0 == LLMMessage_dict(self)
        files == d0["files"]
        d1 == Without(d0, {"files"})
        d2 == IF Len(files) > 0 /\ self.role = "user"
              THEN [d1 EXCEPT !["content"] =
                       ContentParts(<<TextPart(self.content)>> \o
                                    [i \in DOMAIN self.files |->
                                        FileAttachment_to_dict(self.files[i], model)])]
              ELSE d1
    IN  IF ~system_role /\ "role" \in DOMAIN d2 /\ d2["role"] = "system"
        THEN [d2 EXCEPT !["role"] = "user",
                        !["content"] = ContentText(<<SystemMarker>> \o @.text)]
        ELSE d2

\* lines 313-336 of api_dict, on the dict d of lines 295-312
ApiDictTail(self, d, dropped) ==
    LET dict_no_none == [k \in {x \in DOMAIN d : ~IsNone(x, d[x])} |-> d[k]]
        d4 == IF "name" \in DOMAIN dict_no_none /\ dict_no_none["name"] = ""
              THEN Without(dict_no_none, {"name"}) ELSE dict_no_none
        d5 == IF "function_call" \in DOMAIN d4
              THEN [d4 EXCEPT !["function_call"] = DumpArguments(@)] ELSE d4
        tcs == IF "tool_calls" \in DOMAIN d5
               THEN DumpToolCalls(d5["tool_calls"].calls, 1)
               ELSE [raised |-> None, calls |-> <<>>]
        d6 == IF "tool_calls" \in DOMAIN d5
              THEN [d5 EXCEPT !["tool_calls"].calls = tcs.calls] ELSE d5
    IN  IF tcs.raised # None THEN ApiResult(tcs.raised, EmptyDict, WriteBack(self, d5))
        ELSE ApiResult(None, Without(d6, dropped), WriteBack(self, d6))

\* A mutant: the system role is kept whatever the model supports
api_dict_keeprole(self, model, system_role) ==
    ApiDictTail(self, ApiDictHead(self, model, TRUE),
                {"tool_id", "timestamp", "chat_document_id"})

\* A mutant: chat_document_id is not dropped
api_dict_keepdoc(self, model, system_role) ==
    ApiDictTail(self, ApiDictHead(self, model, system_role), {"tool_id", "timestamp"})

\* LLMMessage.api_dict
api_dict(self, model, system_role) ==
    ApiDictTail(self, ApiDictHead(self, model, system_role),
                {"tool_id", "timestamp", "chat_document_id"})

\* the text of a wire turn: the string, or the text part of the array
WireText(d) ==
    IF d["content"].isArray THEN d["content"].parts[1].text ELSE d["content"].text

\* OpenAIToolCall.from_dict over the tool calls of a wire turn from i on:
\* the first error raised, else the calls built
RECURSIVE ToolCallsFromDicts(_, _, _)
ToolCallsFromDicts(calls, i, done) ==
    IF i > Len(calls) THEN [raised |-> None, calls |-> done]
    ELSE LET tc == OpenAIToolCall_from_dict(calls[i])
         IN  IF tc.raised # None THEN [raised |-> tc.raised, calls |-> done]
             ELSE ToolCallsFromDicts(calls, i + 1, Append(done, tc.value))

\* from_wire: the turn a wire form stands for; its calls are rebuilt by
\* LLMFunctionCall.from_dict and OpenAIToolCall.from_dict
from_wire(d) ==
    LET fc == IF "function_call" \in DOMAIN d
              THEN LLMFunctionCall_from_dict(d["function_call"])
              ELSE Returns(NoCall, None)
        tcs == IF "tool_calls" \in DOMAIN d
               THEN ToolCallsFromDicts(d["tool_calls"].calls, 1, <<>>)
               ELSE [raised |-> None, calls |-> <<>>]
    IN  [raised |-> IF fc.raised # None THEN fc.raised ELSE tcs.raised,
         role |-> d["role"],
         content |-> WireText(d),
         function_call |-> fc.value,
         tool_calls |-> IF "tool_calls" \in DOMAIN d
                        THEN ToolCallList(tcs.calls) ELSE NoToolCalls]

\* the model id api_dict is given
WireModel == "gpt-4o"

\* any turn, for a model with or without a system role
InitWire ==
    /\ IdleRecipient /\ IdleUsage /\ IdleTask /\ IdleHistory
    /\ IdleFromDict /\ IdleReasoning /\ IdleCreate /\ IdleStreaming
    /\ turn \in LLMMessages
    /\ has_system_role \in BOOLEAN
    /\ wire = None
    /\ back = None
    /\ wpc = "input"

\* turn.api_dict(model, has_system_role)
ApiDict ==
    /\ wpc = "input"
    /\ LET r == api_dict(turn, WireModel, has_system_role)
       IN  /\ wire' = [raised |-> r.raised, d |-> r.d]
           /\ turn' = r.self
    /\ wpc' = "wired"
    /\ UNCHANGED <<has_system_role, back, dvars, evars, fvars, svars, hvars, rvars, uvars, kvars>>

\* the receiver of the wire form rebuilds the turn
FromWire ==
    /\ wpc = "wired"
    /\ wire.raised = None
    /\ back' = from_wire(wire.d)
    /\ wpc' = "rebuilt"
    /\ UNCHANGED <<turn, has_system_role, wire, dvars, evars, fvars, svars, hvars, rvars, uvars, kvars>>

NextWire == ApiDict \/ FromWire

SpecWire == InitWire /\ [][NextWire]_vars

\* ---- from_dict on provider JSON
\* argument strings a provider sends: objects (one over two lines, one with
\* its closing brace missing), other JSON values, the empty string, and
\* text that is no JSON
RawArgumentStrings ==
    {<<Punct("{"), Punct("}")>>,
     <<Punct("{"), StrTok("recipient"), Punct(":"), SP, StrTok("X"), Punct("}")>>,
     <<SP, Punct("{"), NL, StrTok("recipient"), Punct(":"), Lit("null"), NL, Punct("}"), NL>>,
     <<Punct("{"), StrTok("request"), Punct(":"), StrTok("r")>>,
     <<Punct("["), Punct("]")>>,
     <<StrTok("X")>>,
     <<Lit("1")>>,
     <<Lit("true")>>,
     <<Lit("null")>>,
     <<>>,
     <<NL, SP>>,
     <<Punct("}"), StrTok("X")>>}

RawArguments == {ArgObj(NoArgs)} \cup {ArgStr(s) : s \in RawArgumentStrings}

\* the dicts from_dict is handed: a function call, or a tool call around one
RawFunctionCalls == [name : {"f", "g"}, arguments : RawArguments]

RawMessages ==
    [cls : {"LLMFunctionCall"}, id : {None}, type : {"function"},
     function : RawFunctionCalls]
    \cup
    [cls : {"OpenAIToolCall"}, id : {None, "c1"}, type : {"function"},
     function : RawFunctionCalls]

InitFromDict ==
    /\ IdleRecipient /\ IdleUsage /\ IdleTask /\ IdleHistory
    /\ IdleWire /\ IdleReasoning /\ IdleCreate /\ IdleStreaming
    /\ raw \in RawMessages
    /\ built = None
    /\ fpc = "input"

\* LLMFunctionCall.from_dict(raw)
FunctionFromDict ==
    /\ fpc = "input"
    /\ raw.cls = "LLMFunctionCall"
    /\ built' = LLMFunctionCall_from_dict(raw.function)
    /\ fpc' = "built"
    /\ UNCHANGED <<raw, wvars, evars, fvars, svars, hvars, rvars, uvars, kvars>>

\* OpenAIToolCall.from_dict(raw)
ToolFromDict ==
    /\ fpc = "input"
    /\ raw.cls = "OpenAIToolCall"
    /\ built' = OpenAIToolCall_from_dict(raw)
    /\ fpc' = "built"
    /\ UNCHANGED <<raw, wvars, evars, fvars, svars, hvars, rvars, uvars, kvars>>

NextFromDict == FunctionFromDict \/ ToolFromDict

SpecFromDict == InitFromDict /\ [][NextFromDict]_vars


(***************************************************************************)
(* Reasoning extraction: LanguageModel.get_reasoning_final.  A text is the *)
(* sequence of its pieces: a delimiter, or a stretch of other text.        *)
(***************************************************************************)
\* Bound: the pieces of a text
MaxTextLen == 4

\* config.thought_delimiters
thought_delimiters == <<"<think>", "</think>">>

Pieces == {thought_delimiters[1], thought_delimiters[2], "R", "F"}

Texts == UNION {[1..n -> Pieces] : n \in 0..MaxTextLen}

\* `x in s`
Contains(s, x) == \E i \in DOMAIN s : s[i] = x

\* str.find: the place of the first x in s
Find(s, x) == CHOOSE i \in DOMAIN s : s[i] = x /\ \A j \in 1..(i - 1) : s[j] # x

\* str.split(sep): the stretches of s between the occurrences of sep
RECURSIVE Split(_, _)
Split(s, sep) ==
    IF ~Contains(s, sep) THEN <<s>>
    ELSE <<SubSeq(s, 1, Find(s, sep) - 1)>>
         \o Split(SubSeq(s, Find(s, sep) + 1, Len(s)), sep)

\* what get_reasoning_final returns or raises
Extracted(reasoning, final) == [raised |-> None, reasoning |-> reasoning, final |-> final]

ExtractRaises(e) == [raised |-> e, reasoning |-> <<>>, final |-> <<>>]

\* LanguageModel.get_reasoning_final; `reasoning, final = parts[1].split(end)`
\* raises ValueError unless the split gives exactly two stretches
get_reasoning_final(message) ==
    LET start == thought_delimiters[1]
        end == thought_delimiters[2]
    IN  IF Contains(message, start) /\ Contains(message, end)
        THEN LET parts == Split(message, start)
             IN  IF Len(parts) > 1
                 THEN LET rf == Split(parts[2], end)
                      IN  IF Len(rf) = 2 THEN Extracted(rf[1], rf[2])
                          ELSE ExtractRaises("ValueError")
                 ELSE Extracted(<<>>, message)
        ELSE Extracted(<<>>, message)

\* any text of the model's response
InitReasoning ==
    /\ IdleRecipient /\ IdleUsage /\ IdleTask /\ IdleHistory
    /\ IdleWire /\ IdleFromDict /\ IdleCreate /\ IdleStreaming
    /\ llm_text \in Texts
    /\ reasoning_final = None
    /\ epc = "input"

\* llm.get_reasoning_final(llm_text)
GetReasoningFinal ==
    /\ epc = "input"
    /\ reasoning_final' = get_reasoning_final(llm_text)
    /\ epc' = "extracted"
    /\ UNCHANGED <<llm_text, wvars, dvars, fvars, svars, hvars, rvars, uvars, kvars>>

SpecReasoning == InitReasoning /\ [][GetReasoningFinal]_vars

(***************************************************************************)
(* The model factory: LanguageModel.create.                                *)
(***************************************************************************)
\* the class of a configuration: LLMConfig itself, or a subclass of it
ConfigClasses == {"LLMConfig", "OpenAIGPTConfig", "AzureConfig", "MockLMConfig"}

\* config.type
TypeTags == {"openai", "azure", "mock", "ollama", None}

\* create(None)
NoConfig ==
    [isNone |-> TRUE, cls |-> "NoneType", type |-> None, chat_model |-> "",
     stream |-> FALSE]

LLMConfigs ==
    [isNone : {FALSE}, cls : ConfigClasses, type : TypeTags,
     chat_model : ModelIds \cup {""}, stream : BOOLEAN]

\* a model of one of the variants, built on its configuration; None
NoModel == [isNone |-> TRUE, cls |-> "NoneType", config |-> NoConfig]

\* MockLM(config), AzureGPT(config), OpenAIGPT(config)
Construct(cls, cfg) == [isNone |-> FALSE, cls |-> cls, config |-> cfg]

\* A mutant: the generic LLMConfig is accepted
create_generic(cfg) ==
    IF cfg.isNone \/ cfg.type = None THEN [raised |-> None, model |-> NoModel]
    ELSE IF cfg.type = "mock" THEN [raised |-> None, model |-> Construct("MockLM", cfg)]
    ELSE LET openai == IF cfg.type = "azure" THEN "AzureGPT" ELSE "OpenAIGPT"
             cls == DictGet(Dict1("openai", openai), cfg.type, openai)
         IN  [raised |-> None, model |-> Construct(cls, cfg)]

\* LanguageModel.create
create(cfg) ==
    IF ~cfg.isNone /\ cfg.cls = "LLMConfig"
    THEN [raised |-> "ValueError", model |-> NoModel]
    ELSE IF cfg.isNone \/ cfg.type = None THEN [raised |-> None, model |-> NoModel]
    ELSE IF cfg.type = "mock" THEN [raised |-> None, model |-> Construct("MockLM", cfg)]
    ELSE LET openai == IF cfg.type = "azure" THEN "AzureGPT" ELSE "OpenAIGPT"
             cls == DictGet(Dict1("openai", openai), cfg.type, openai)
         IN  [raised |-> None, model |-> Construct(cls, cfg)]

\* any configuration, or None
InitCreate ==
    /\ IdleRecipient /\ IdleUsage /\ IdleTask /\ IdleHistory
    /\ IdleWire /\ IdleFromDict /\ IdleReasoning /\ IdleStreaming
    /\ config \in LLMConfigs \cup {NoConfig}
    /\ created = None
    /\ cpc = "input"

\* LanguageModel.create(config)
Create ==
    /\ cpc = "input"
    /\ created' = create(config)
    /\ cpc' = "created"
    /\ UNCHANGED <<config, wvars, dvars, evars, svars, hvars, rvars, uvars, kvars>>

SpecCreate == InitCreate /\ [][Create]_vars

(***************************************************************************)
(* Streaming contexts: `with StreamingIfAllowed(llm, stream): ...`, nested *)
(* in one flow of control.  A body ends normally or by an exception, which *)
(* leaves the enclosing contexts one by one until a handler catches it.    *)
(***************************************************************************)
\* Bound: the contexts nested in one another
MaxDepth == 3

\* the models contexts are put around
Llms == {"a", "b"}

\* A mutant: set_stream returns the new setting
set_stream_new(streams, llm, stream) ==
    [streams |-> [streams EXCEPT ![llm] = stream], returned |-> stream]

\* LanguageModel.set_stream(stream): sets the model's stream setting and
\* returns the previous one
set_stream(streams, llm, stream) ==
    [streams |-> [streams EXCEPT ![llm] = stream], returned |-> streams[llm]]

\* A mutant: the requested value is set whatever settings.stream
enter_unconditional(streams, settings, self) ==
    LET r == set_stream(streams, self.llm, self.stream)
    IN  [streams |-> r.streams, self |-> [self EXCEPT !.old_stream = r.returned]]

\* StreamingIfAllowed(llm, stream); `before` keeps, for the claims, the
\* model's setting at the time of __enter__
StreamingIfAllowed(llm, stream) ==
    [llm |-> llm, stream |-> stream, old_stream |-> FALSE, before |-> FALSE]

\* StreamingIfAllowed.__enter__
enter(streams, settings, self) ==
    LET r == set_stream(streams, self.llm, settings /\ self.stream)
    IN  [streams |-> r.streams, self |-> [self EXCEPT !.old_stream = r.returned]]

\* StreamingIfAllowed.__exit__
exit(streams, self) == set_stream(streams, self.llm, self.old_stream).streams

\* no __exit__ ran in the last step
NotExited == [isNone |-> TRUE, llm |-> "", before |-> FALSE, how |-> ""]

\* the __exit__ of context c ran in the last step, normally or by exception
Exited(c, how) == [isNone |-> FALSE, llm |-> c.llm, before |-> c.before, how |-> how]

\* the innermost context
Innermost == contexts[Len(contexts)]

Outer == SubSeq(contexts, 1, Len(contexts) - 1)

\* any global setting, any settings of the models, no context entered
InitStreaming ==
    /\ IdleRecipient /\ IdleUsage /\ IdleTask /\ IdleHistory
    /\ IdleWire /\ IdleFromDict /\ IdleReasoning /\ IdleCreate
    /\ settings_stream \in BOOLEAN
    /\ llm_stream \in [Llms -> BOOLEAN]
    /\ contexts = <<>>
    /\ unwinding = FALSE
    /\ exited = NotExited

\* `with StreamingIfAllowed(llm, stream):` is entered
Enter ==
    /\ ~unwinding
    /\ Len(contexts) < MaxDepth
    /\ \E llm \in Llms, stream \in BOOLEAN :
        LET self == [StreamingIfAllowed(llm, stream) EXCEPT !.before = llm_stream[llm]]
            r == enter(llm_stream, settings_stream, self)
        IN  /\ llm_stream' = r.streams
            /\ contexts' = Append(contexts, r.self)
    /\ exited' = NotExited
    /\ UNCHANGED <<settings_stream, unwinding, wvars, dvars, evars, fvars, hvars, rvars, uvars, kvars>>

\* the body of the innermost context ends normally
ExitNormally ==
    /\ ~unwinding
    /\ contexts # <<>>
    /\ llm_stream' = exit(llm_stream, Innermost)
    /\ contexts' = Outer
    /\ exited' = Exited(Innermost, "normal")
    /\ UNCHANGED <<settings_stream, unwinding, wvars, dvars, evars, fvars, hvars, rvars, uvars, kvars>>

\* the body of the innermost context raises an exception
RaiseInBody ==
    /\ ~unwinding
    /\ contexts # <<>>
    /\ unwinding' = TRUE
    /\ exited' = NotExited
    /\ UNCHANGED <<settings_stream, llm_stream, contexts, wvars, dvars, evars, fvars, hvars, rvars, uvars, kvars>>

\* the exception leaves the innermost context; __exit__ returns None, so
\* the exception goes on
ExitByException ==
    /\ unwinding
    /\ contexts # <<>>
    /\ llm_stream' = exit(llm_stream, Innermost)
    /\ contexts' = Outer
    /\ exited' = Exited(Innermost, "exception")
    /\ UNCHANGED <<settings_stream, unwinding, wvars, dvars, evars, fvars, hvars, rvars, uvars, kvars>>

\* a handler between two contexts, or around them all, catches the exception
Handle ==
    /\ unwinding
    /\ unwinding' = FALSE
    /\ exited' = NotExited
    /\ UNCHANGED <<settings_stream, llm_stream, contexts, wvars, dvars, evars, fvars, hvars, rvars, uvars, kvars>>

NextStreaming == Enter \/ ExitNormally \/ RaiseInBody \/ ExitByException \/ Handle

SpecStreaming == InitStreaming /\ [][NextStreaming]_vars

(***************************************************************************)
(* The components of a chat history:                                       *)
(* LanguageModel.get_chat_history_components.                              *)
(***************************************************************************)
\* Bound: the messages of a chat history
MaxHistLen == 4

DUMMY_SYS_PROMPT == "You are a helpful assistant."

DUMMY_USER_PROMPT == "Follow the instructions above."

\* LLMMessage(content=..., role=...)
HistoryMessage(role, content) == [role |-> role, content |-> content]

HistoryMessages == [role : {"system", "user", "assistant"}, content : {"p", "q"}]

ChatHistories == UNION {[1..n -> HistoryMessages] : n \in 0..MaxHistLen}

\* list.insert(i, x), i counted from 0
ListInsert(l, i, x) == SubSeq(l, 1, i) \o <<x>> \o SubSeq(l, i + 1, Len(l))

\* lst[::2] and lst[1::2]
Evens(lst) == [i \in 1..((Len(lst) + 1) \div 2) |-> lst[2 * i - 1]]

Odds(lst) == [i \in 1..(Len(lst) \div 2) |-> lst[2 * i]]

\* zip(a, b): as long as the shorter of the two
Zip(a, b) ==
    [i \in 1..(IF Len(a) < Len(b) THEN Len(a) ELSE Len(b)) |-> <<a[i], b[i]>>]

\* LanguageModel.user_assistant_pairs
user_assistant_pairs(lst) == Zip(Evens(lst), Odds(lst))

\* A mutant: the list worked on is the caller's own
CallersOwnList == TRUE

\* `messages = [m for m in messages]` of line 524 binds the name to a new
\* list: the list the inserts and appends go to is not the caller's
WorksOnCallersList == FALSE

\* what get_chat_history_components returns, and the caller's list as the
\* call leaves it
Components(system_prompt, pairs, user_prompt, callers) ==
    [system_prompt |-> system_prompt, pairs |-> pairs, user_prompt |-> user_prompt,
     messages |-> callers]

\* A mutant: no dummy user message is put after the system message
get_chat_history_components_noinsert(messages) ==
    LET m0 == messages
        m1 == IF Len(m0) = 0 \/ m0[1].role # "system"
              THEN ListInsert(m0, 0, HistoryMessage("system", DUMMY_SYS_PROMPT))
              ELSE m0
        system_prompt == m1[1].content
        m2 == IF Len(m1) = 1
              THEN Append(m1, HistoryMessage("user", DUMMY_USER_PROMPT))
              ELSE m1
        m4 == IF m2[Len(m2)].role # "user"
              THEN Append(m2, HistoryMessage("user", DUMMY_USER_PROMPT))
              ELSE m2
        conversation == [i \in 1..(Len(m4) - 2) |-> m4[i + 1].content]
        user_prompt == m4[Len(m4)].content
    IN  Components(system_prompt, user_assistant_pairs(conversation), user_prompt,
                   IF WorksOnCallersList THEN m4 ELSE messages)

\* LanguageModel.get_chat_history_components
get_chat_history_components(messages) ==
    LET m0 == messages
        m1 == IF Len(m0) = 0 \/ m0[1].role # "system"
              THEN ListInsert(m0, 0, HistoryMessage("system", DUMMY_SYS_PROMPT))
              ELSE m0
        system_prompt == m1[1].content
        m2 == IF Len(m1) = 1
              THEN Append(m1, HistoryMessage("user", DUMMY_USER_PROMPT))
              ELSE m1
        m3 == IF m2[2].role # "user"
              THEN ListInsert(m2, 1, HistoryMessage("user", DUMMY_USER_PROMPT))
              ELSE m2
        m4 == IF m3[Len(m3)].role # "user"
              THEN Append(m3, HistoryMessage("user", DUMMY_USER_PROMPT))
              ELSE m3
        conversation == [i \in 1..(Len(m4) - 2) |-> m4[i + 1].content]
        user_prompt == m4[Len(m4)].content
    IN  Components(system_prompt, user_assistant_pairs(conversation), user_prompt,
                   IF WorksOnCallersList THEN m4 ELSE messages)

\* any list of messages
InitHistory ==
    /\ IdleRecipient /\ IdleUsage /\ IdleTask
    /\ IdleWire /\ IdleFromDict /\ IdleReasoning /\ IdleCreate /\ IdleStreaming
    /\ chat_history \in ChatHistories
    /\ given = chat_history
    /\ components = None
    /\ hpc = "input"

\* LanguageModel.get_chat_history_components(chat_history)
GetChatHistoryComponents ==
    /\ hpc = "input"
    /\ LET r == get_chat_history_components(chat_history)
       IN  /\ components' = [system_prompt |-> r.system_prompt, pairs |-> r.pairs,
                             user_prompt |-> r.user_prompt]
           /\ chat_history' = r.messages
    /\ hpc' = "returned"
    /\ UNCHANGED <<given, wvars, dvars, evars, fvars, svars, rvars, uvars, kvars>>

SpecHistory == InitHistory /\ [][GetChatHistoryComponents]_vars

(***************************************************************************)
(* Claims about recipient resolution.  The formulas below say what the     *)
(* result must be from the response alone, without get_recipient_and_      *)
(* message.                                                                *)
(***************************************************************************)
\* the `recipient` a call carries: "" when it has no mapping or no such key
CallRecipient(fc) ==
    IF fc.present /\ fc.arguments.isdict /\ "recipient" \in DOMAIN fc.arguments.d
    THEN fc.arguments.d["recipient"]
    ELSE ""

\* tool call i of the response carries a non-empty recipient
Addressed(i) ==
    CallRecipient(resp.oai_tool_calls.calls[i].function) \notin {"", None}

AddressedCalls == {i \in 1..Len(resp.oai_tool_calls.calls) : Addressed(i)}

\* the text starts with "TO: <name>"
HasToPrefix(msg) == Len(msg) >= 2 /\ msg[1] = TokTO /\ msg[2].kind = "word"

\* positions of the top-level JSON objects of the text that have a recipient
JsonWithRecipient(msg) ==
    {i \in 1..Len(msg) : msg[i].kind = "json" /\ "recipient" \in DOMAIN msg[i].obj}

Min(S) == CHOOSE x \in S : \A y \in S : x <= y

\* C1: a response that carries a function call resolves to (r, ""), r being
\* the call's `recipient` argument if its arguments are a mapping that has
\* one and "" otherwise, whatever the text and the tool calls say.
C1_FunctionCallWins ==
    (rpc = "resolved" /\ resp.function_call.present) =>
        result = [recipient |-> CallRecipient(resp.function_call), content |-> <<>>]

\* a function call addressed to X, beside a text "TO: Y ..." and a tool call
\* addressed to W, has been resolved to X
C1_Witness ==
    /\ rpc = "resolved"
    /\ resp.function_call.present
    /\ CallRecipient(resp.function_call) = "X"
    /\ HasToPrefix(resp.message)
    /\ ~resp.oai_tool_calls.isNone
    /\ \E i \in 1..Len(resp.oai_tool_calls.calls) :
           CallRecipient(resp.oai_tool_calls.calls[i].function) = "W"
    /\ result.recipient = "X"

\* C2: with no function call and at least one addressed tool call, the
\* result is (r, "") for r the recipient of the lowest-index addressed tool
\* call, whatever the text says.
C2_FirstAddressedToolCall ==
    (rpc = "resolved" /\ ~resp.function_call.present /\ AddressedCalls # {}) =>
        result =
            [recipient |->
                 CallRecipient(resp.oai_tool_calls.calls[Min(AddressedCalls)].function),
             content |-> <<>>]

\* an unaddressed tool call, then an addressed one, beside a text "TO: Y":
\* the second list entry's recipient has been returned
C2_Witness ==
    /\ rpc = "resolved"
    /\ ~resp.function_call.present
    /\ Len(resp.oai_tool_calls.calls) = 2
    /\ ~Addressed(1)
    /\ Addressed(2)
    /\ HasToPrefix(resp.message)
    /\ result.recipient = CallRecipient(resp.oai_tool_calls.calls[2].function)

\* two addressed tool calls with different recipients: the first one wins
C2_WitnessFirstOfTwo ==
    /\ rpc = "resolved"
    /\ ~resp.function_call.present
    /\ Len(resp.oai_tool_calls.calls) = 2
    /\ CallRecipient(resp.oai_tool_calls.calls[1].function) = "X"
    /\ CallRecipient(resp.oai_tool_calls.calls[2].function) = "W"
    /\ result.recipient = "X"

\* C3: with no function call and a non-empty tool-call list that has no
\* addressed tool call, the result is the one the same text gets with no
\* tool calls at all.
C3_FallThroughToText ==
    (/\ rpc = "resolved"
     /\ ~resp.function_call.present
     /\ ~resp.oai_tool_calls.isNone
     /\ resp.oai_tool_calls.calls # <<>>
     /\ AddressedCalls = {}) =>
        result = get_recipient_and_message([resp EXCEPT !.oai_tool_calls = NoToolCalls])

\* unaddressed tool calls beside a text "TO: Y ...": resolved to Y
C3_Witness ==
    /\ rpc = "resolved"
    /\ ~resp.function_call.present
    /\ ~resp.oai_tool_calls.isNone
    /\ resp.oai_tool_calls.calls # <<>>
    /\ AddressedCalls = {}
    /\ HasToPrefix(resp.message)
    /\ result.recipient = "Y"

\* C4: with no function call and no addressed tool call, the text decides,
\* in strict priority: a "TO: <name> <content>" prefix gives (name, content)
\* even if a JSON recipient is there too; else the first top-level JSON
\* object with a recipient gives (its value, the whole text); else
\* ("", the whole text).
C4_TextPriorityChain ==
    (rpc = "resolved" /\ ~resp.function_call.present /\ AddressedCalls = {}) =>
        LET msg == resp.message
        IN  IF HasToPrefix(msg)
            THEN result = [recipient |-> msg[2].text,
                           content |-> SubSeq(msg, 3, Len(msg))]
            ELSE IF JsonWithRecipient(msg) # {}
                 THEN result = [recipient |-> msg[Min(JsonWithRecipient(msg))].obj["recipient"],
                                content |-> msg]
                 ELSE result = [recipient |-> "", content |-> msg]

\* the text "TO: Y {recipient: Z}" has been resolved to Y with the JSON
\* object as its content
C4_Witness ==
    /\ rpc = "resolved"
    /\ ~resp.function_call.present
    /\ AddressedCalls = {}
    /\ HasToPrefix(resp.message)
    /\ JsonWithRecipient(resp.message) # {}
    /\ result.recipient = "Y"
    /\ result.content # <<>>

(***************************************************************************)
(* Claims about the usage counters.                                        *)
(***************************************************************************)
\* the model id a logged update_usage_cost call targets (None: no model)
TargetOf(e) ==
    IF e.chat THEN Configs[e.inst].chat_model ELSE Configs[e.inst].completion_model

\* the last place in the log where m's counter was reset, 0 if it never was
LastReset(m) ==
    LET R == {i \in 1..Len(log) : log[i].op = "counter.reset" /\ log[i].mdl = m}
    IN  IF R = {} THEN 0 ELSE CHOOSE i \in R : \A j \in R : j <= i

\* the updates that targeted m since then
UpdatesSince(m) ==
    {i \in (LastReset(m) + 1)..Len(log) :
        log[i].op = "update_usage_cost" /\ TargetOf(log[i]) = m}

\* m's counter was created: an update targeted m, or a reset reached it
Touched(m) ==
    \E i \in 1..Len(log) :
        \/ log[i].op = "update_usage_cost" /\ TargetOf(log[i]) = m
        \/ log[i].op = "counter.reset" /\ log[i].mdl = m

RECURSIVE SumPrompts(_)
SumPrompts(S) ==
    IF S = {} THEN 0
    ELSE LET i == CHOOSE x \in S : TRUE IN log[i].prompts + SumPrompts(S \ {i})

RECURSIVE SumCompletions(_)
SumCompletions(S) ==
    IF S = {} THEN 0
    ELSE LET i == CHOOSE x \in S : TRUE IN log[i].completions + SumCompletions(S \ {i})

RECURSIVE SumCost(_)
SumCost(S) ==
    IF S = {} THEN 0
    ELSE LET i == CHOOSE x \in S : TRUE IN log[i].cost + SumCost(S \ {i})

\* C9: after any sequence of update_usage_cost and reset_usage_cost calls,
\* made one after the other through any instances, each model id m has a
\* counter exactly if a call reached it, and that counter holds the sums of
\* the prompts, completions and costs of the updates that targeted m since
\* its last reset, and their number as calls.
C9_CounterIsSumOfUpdates ==
    /\ None \notin DOMAIN usage_cost_dict
    /\ \A m \in ModelIds :
        /\ (m \in DOMAIN usage_cost_dict) <=> Touched(m)
        /\ (m \in DOMAIN usage_cost_dict) =>
              LET c == heap[usage_cost_dict[m]]
                  U == UpdatesSince(m)
              IN  /\ c.prompt_tokens = SumPrompts(U)
                  /\ c.completion_tokens = SumCompletions(U)
                  /\ c.cost = SumCost(U)
                  /\ c.calls = Cardinality(U)

\* updates (100,50) then (20,10) against "m", the second through another
\* instance, have left prompt=120, completion=60, calls=2
C9_Witness ==
    /\ Len(log) = 2
    /\ log[1].op = "update_usage_cost" /\ TargetOf(log[1]) = "m"
    /\ log[1].prompts = 100 /\ log[1].completions = 50
    /\ log[2].op = "update_usage_cost" /\ TargetOf(log[2]) = "m"
    /\ log[2].prompts = 20 /\ log[2].completions = 10
    /\ log[1].inst # log[2].inst
    /\ "m" \in DOMAIN usage_cost_dict
    /\ heap[usage_cost_dict["m"]].prompt_tokens = 120
    /\ heap[usage_cost_dict["m"]].completion_tokens = 60
    /\ heap[usage_cost_dict["m"]].calls = 2

\* every thread has returned from update_usage_cost
AllThreadsDone == \A t \in Threads : tpc[t].at = "done"

RECURSIVE ThreadTotal(_, _)
ThreadTotal(S, f) ==
    IF S = {} THEN 0
    ELSE LET t == CHOOSE x \in S : TRUE
         IN  (CASE f = "prompt_tokens" -> ThreadCall(t).prompts
                [] f = "completion_tokens" -> ThreadCall(t).completions
                [] f = "cost" -> ThreadCall(t).cost
                [] OTHER -> 1)
             + ThreadTotal(S \ {t}, f)

\* C10: when several threads run update_usage_cost for the same model id,
\* in any interleaving of their steps, then once all have returned the
\* counter holds the totals over all of them.
C10_NoLostUpdate ==
    AllThreadsDone =>
        /\ SharedModel \in DOMAIN usage_cost_dict
        /\ \A f \in {"prompt_tokens", "completion_tokens", "cost", "calls"} :
               heap[usage_cost_dict[SharedModel]][f] = ThreadTotal(Threads, f)

\* the place in the log of the last call made, 0 if none was
LastCall ==
    LET C == {i \in 1..Len(log) : log[i].op \in {"update_usage_cost", "reset_usage_cost"}}
    IN  IF C = {} THEN 0 ELSE CHOOSE i \in C : \A j \in C : j <= i

\* the model ids of an instance's configuration
ConfiguredModels(inst) ==
    {Configs[inst].chat_model, Configs[inst].completion_model} \ {None}

\* C11: right after reset_usage_cost on an instance, the counters of that
\* instance's chat model and of its completion model exist and hold zero
\* prompt_tokens, cached_tokens, completion_tokens, cost and calls.
C11_ResetZeroesBothCounters ==
    (LastCall > 0 /\ log[LastCall].op = "reset_usage_cost") =>
        \A mdl \in ConfiguredModels(log[LastCall].inst) :
            /\ mdl \in DOMAIN usage_cost_dict
            /\ heap[usage_cost_dict[mdl]] = ZeroUsage

\* C11, the frame: a call never removes a key of the usage map, and
\* reset_usage_cost leaves the counter of every model id that is not of
\* the instance's configuration as it was.
C11_KeysStayOthersUnchanged ==
    [][/\ DOMAIN usage_cost_dict \subseteq DOMAIN usage_cost_dict'
       /\ (LastCall' > LastCall /\ log'[LastCall'].op = "reset_usage_cost") =>
             \A mdl \in DOMAIN usage_cost_dict \ ConfiguredModels(log'[LastCall'].inst) :
                 heap'[usage_cost_dict'[mdl]] = heap[usage_cost_dict[mdl]]]_vars

(***************************************************************************)
(* Claims about the task engine.                                           *)
(***************************************************************************)
Active(k) == tasks[k].status # "unborn"

Completed(k) == tasks[k].status = "completed"

\* history h ends with seq
EndsWith(h, seq) == \E n \in 0..Len(h) : h = SubSeq(h, 1, n) \o seq

\* some Done-Sequence of task k equals a suffix of its event history
SuffixMatch(k) == \E seq \in tasks[k].policy : EndsWith(tasks[k].history, seq)

\* no Done-Sequence matched after any turn the task has taken
NoMatchEver(k) ==
    \A n \in 1..Len(tasks[k].history) :
        \A seq \in tasks[k].policy : ~EndsWith(SubSeq(tasks[k].history, 1, n), seq)

\* the agent of task k has handled a call of the terminal tool
TerminalHandled(k) ==
    \E d \in DOMAIN docs :
        /\ docs[d].task = k /\ docs[d].kind = "A" /\ docs[d].tool = TerminalTool
        /\ ~docs[d].rejected /\ docs[d].copy_of = 0

\* task k has taken as many turns as its ceiling allows
CeilingHit(k) == tasks[k].ceiling > 0 /\ tasks[k].turns = tasks[k].ceiling

\* the result of task k is the last document the task produced
ResultIsLastDocument(k) ==
    /\ tasks[k].result \in DOMAIN docs
    /\ docs[tasks[k].result].task = k
    /\ \A d \in DOMAIN docs : docs[d].task = k => d <= tasks[k].result

\* C5 as stated: after each turn, a task is completed if and only if one of
\* its Done-Sequences equals a suffix of its event history.
C5_CompletedIffSuffixMatch ==
    \A k \in TaskIds : Active(k) => (Completed(k) <=> SuffixMatch(k))

\* C5 amended: after each turn, a task is completed if and only if one of
\* its Done-Sequences equals a suffix of its event history, its turn ceiling
\* has been reached or its terminal tool has been handled, and its result
\* is then the last produced document; with policy ["T,A"], no ceiling below
\* 3 and turns L, T, A it is not completed after the first or the second
\* turn and is completed after the third.
C5_CompletedIffMatchCeilingOrTerminal ==
    \A k \in TaskIds : Active(k) =>
        /\ Completed(k) <=> (SuffixMatch(k) \/ CeilingHit(k) \/ TerminalHandled(k))
        /\ Completed(k) => ResultIsLastDocument(k)
        /\ ~Completed(k) => tasks[k].result = 0
        /\ (tasks[k].policy = {<<"T", "A">>} /\ tasks[k].ceiling \notin {1, 2}) =>
              /\ tasks[k].history \in {<<"L">>, <<"L", "T">>} => ~Completed(k)
              /\ tasks[k].history = <<"L", "T", "A">> => Completed(k)

\* the task with policy ["T,A"] and no ceiling has taken the turns L, T, A,
\* the call being of an ordinary tool, and is completed with the A document
\* as its result
C5_Witness ==
    /\ tasks[1].policy = {<<"T", "A">>}
    /\ tasks[1].ceiling = 0
    /\ tasks[1].history = <<"L", "T", "A">>
    /\ ~TerminalHandled(1)
    /\ Completed(1)
    /\ tasks[1].result = Len(docs)
    /\ docs[Len(docs)].kind = "A"

CeilingSafety ==
    \A k \in TaskIds : (Active(k) /\ tasks[k].ceiling > 0) =>
        /\ tasks[k].turns <= tasks[k].ceiling
        /\ (NoMatchEver(k) /\ ~TerminalHandled(k)) =>
              (Completed(k) <=> tasks[k].turns = tasks[k].ceiling)
        /\ Completed(k) => ResultIsLastDocument(k)

RECURSIVE Walk(_, _, _)
Walk(d, target, seen) ==
    IF d = target THEN [ok |-> TRUE, seen |-> seen \cup {d}, cycle |-> FALSE]
    ELSE IF d = 0 THEN [ok |-> FALSE, seen |-> seen, cycle |-> FALSE]
    ELSE IF d \in seen THEN [ok |-> FALSE, seen |-> seen, cycle |-> TRUE]
    ELSE Walk(docs[d].parent, target, seen \cup {d})

\* child task c has returned: its result was copied into its spawner
Returned(c) ==
    /\ tasks[c].spawner # 0
    /\ tasks[c].result # 0
    /\ \E d \in DOMAIN docs :
           docs[d].task = tasks[c].spawner /\ docs[d].copy_of = tasks[c].result

\* C7: from the result document of a task that handled a delegation call,
\* the parent links lead to the delegation-call document, in no more hops
\* than there are documents and without meeting a document twice; and no
\* walk from any document meets a document twice.
C7_ParentChainReachesDelegationCall ==
    /\ \A k \in TaskIds : \A c \in TaskIds :
           (tasks[k].result # 0 /\ tasks[c].spawner = k /\ Returned(c)) =>
               LET w == Walk(tasks[k].result, tasks[c].calldoc, {})
               IN  /\ w.ok
                   /\ Cardinality(w.seen) <= Len(docs)
                   /\ docs[tasks[c].calldoc].kind = "T"
                   /\ docs[tasks[c].calldoc].tool = DelegationTool
    /\ \A d \in DOMAIN docs : ~Walk(d, 0, {}).cycle

\* the main task handled a delegation and took another turn before it was
\* done; the walk from its result passes the deep copy of the child's
\* result and the deep copy of the prompt, and ends at the call
C7_Witness ==
    /\ tasks[1].result # 0
    /\ tasks[2].spawner = 1
    /\ Returned(2)
    /\ tasks[2].turns >= 2
    /\ tasks[1].result # tasks[2].result
    /\ LET w == Walk(tasks[1].result, tasks[2].calldoc, {})
       IN  /\ w.ok
           /\ \E d \in w.seen : docs[d].task = 1 /\ docs[d].copy_of = tasks[2].result
           /\ \E d \in w.seen : docs[d].task = 2 /\ docs[d].copy_of # 0

\* C8: in a child task spawned with tools = "NONE", a call of the terminal
\* tool is handled and completes the task with its answer as the result,
\* and a call of any other tool is rejected.
C8_NoneLeavesOnlyTerminalTool ==
    \A c \in TaskIds : (Active(c) /\ tasks[c].toolsArg = "NONE") =>
        \A d \in DOMAIN docs :
            (docs[d].task = c /\ docs[d].kind = "A") =>
                /\ docs[docs[d].parent].kind = "T"
                /\ docs[docs[d].parent].tool = docs[d].tool
                /\ docs[d].tool = TerminalTool =>
                      ~docs[d].rejected /\ Completed(c) /\ tasks[c].result = d
                /\ docs[d].tool # TerminalTool => docs[d].rejected

\* a child spawned with "NONE" had its call of the multiplier tool rejected,
\* then called the terminal tool, which was handled, and its result has
\* been returned to the parent
C8_Witness ==
    \E c \in TaskIds :
        /\ tasks[c].toolsArg = "NONE"
        /\ Returned(c)
        /\ TerminalHandled(c)
        /\ docs[tasks[c].result].tool = TerminalTool
        /\ \E d \in DOMAIN docs :
               /\ docs[d].task = c /\ docs[d].kind = "A"
               /\ docs[d].tool = "multiplier_tool" /\ docs[d].rejected

(***************************************************************************)
(* Claims about the wire form of a turn.                                   *)
(***************************************************************************)
\* the wire form exists: api_dict has returned
Wired == wpc \in {"wired", "rebuilt"} /\ wire.raised = None

\* the turn is a system turn for a model without a system role
Recoded == ~has_system_role /\ turn.role = "system"

\* the same name and the same arguments
SameCall(a, b) ==
    /\ a.present = b.present
    /\ a.name = b.name
    /\ a.arguments = b.arguments

\* C12: a turn rebuilt from its wire form (a turn that is not recoded as a
\* user turn) has the role and the text of the original, and each of its
\* function and tool calls has the name and the arguments of the original
\* call, also when these arguments are None or an empty mapping.
C12_RoundTrip ==
    (wpc = "rebuilt" /\ ~Recoded) =>
        /\ back.raised = None
        /\ back.role = turn.role
        /\ back.content = turn.content
        /\ SameCall(back.function_call, turn.function_call)
        /\ back.tool_calls.isNone = turn.tool_calls.isNone
        /\ Len(back.tool_calls.calls) = Len(turn.tool_calls.calls)
        /\ \A i \in DOMAIN turn.tool_calls.calls :
               SameCall(back.tool_calls.calls[i].function,
                        turn.tool_calls.calls[i].function)

\* C12 holds of the turns whose calls all have a mapping as arguments: a
\* turn with a function call over two arguments and a tool call comes back
C12_RoundTripOfMappings ==
    (/\ wpc = "rebuilt" /\ ~Recoded
     /\ turn.function_call.present => turn.function_call.arguments.isdict
     /\ \A i \in DOMAIN turn.tool_calls.calls :
            turn.tool_calls.calls[i].function.arguments.isdict) =>
        /\ back.raised = None
        /\ back.role = turn.role
        /\ back.content = turn.content
        /\ SameCall(back.function_call, turn.function_call)
        /\ back.tool_calls.isNone = turn.tool_calls.isNone
        /\ Len(back.tool_calls.calls) = Len(turn.tool_calls.calls)
        /\ \A i \in DOMAIN turn.tool_calls.calls :
               SameCall(back.tool_calls.calls[i].function,
                        turn.tool_calls.calls[i].function)

\* the argument strings that are JSON values other than an object
NonMappingStrings ==
    {<<Punct("["), Punct("]")>>, <<StrTok("X")>>, <<Lit("1")>>, <<Lit("true")>>,
     <<Lit("null")>>}

\* the function call from_dict built, of either class
BuiltFunction == IF raw.cls = "LLMFunctionCall" THEN built.value ELSE built.value.function

\* C13: from_dict of LLMFunctionCall and of OpenAIToolCall returns a call
\* whose arguments are a mapping, or None exactly when the `arguments`
\* entry is None, or raises ValueError; it raises ValueError whenever the
\* argument string is a JSON value that is not a mapping.
C13_FromDictMappingOrError ==
    fpc = "built" =>
        /\ built.raised \in {None, "ValueError"}
        /\ built.raised = None =>
              /\ built.argtype \in {"dict", "NoneType"}
              /\ built.argtype = "dict" <=> BuiltFunction.arguments.isdict
              /\ built.argtype = "NoneType" <=> raw.function.arguments = ArgObj(NoArgs)
        /\ (/\ raw.function.arguments.form = "str"
            /\ raw.function.arguments.str \in NonMappingStrings) =>
              built.raised = "ValueError"

\* OpenAIToolCall.from_dict was handed a tool call whose argument string is
\* "[]" and raised ValueError
C13_Witness ==
    /\ fpc = "built"
    /\ raw.cls = "OpenAIToolCall"
    /\ raw.function.arguments = ArgStr(<<Punct("["), Punct("]")>>)
    /\ built.raised = "ValueError"

\* C16: with has_system_role false the wire turn never has role "system":
\* a system turn goes out with role "user" and the marker before its text;
\* every other turn, and every turn when has_system_role is true, keeps its
\* role and its text.
C16_SystemTurnRecoded ==
    Wired =>
        /\ ~has_system_role => wire.d["role"] # "system"
        /\ IF Recoded
           THEN /\ wire.d["role"] = "user"
                /\ ~wire.d["content"].isArray
                /\ wire.d["content"].text = <<SystemMarker>> \o turn.content
           ELSE /\ wire.d["role"] = turn.role
                /\ WireText(wire.d) = turn.content

\* a system turn "hi" went out as a user turn for a model without a system
\* role
C16_Witness ==
    /\ wpc = "wired"
    /\ wire.raised = None
    /\ ~has_system_role
    /\ turn.role = "system"
    /\ turn.content = <<"hi">>
    /\ wire.d["role"] = "user"

\* the `arguments` entries of a wire form are all strings
ArgumentsAreStrings(d) ==
    /\ "function_call" \in DOMAIN d => d["function_call"].arguments.form = "str"
    /\ "tool_calls" \in DOMAIN d =>
          \A i \in DOMAIN d["tool_calls"].calls :
              ~d["tool_calls"].calls[i].function.isNone =>
                  d["tool_calls"].calls[i].function.arguments.form = "str"

\* C17: for every turn with a function call or a list of tool calls, also a
\* tool call with no function or a call with None as arguments, api_dict
\* returns, and every `arguments` entry of what it returns is a string.
C17_ArgumentsAreStrings ==
    (/\ wpc \in {"wired", "rebuilt"}
     /\ turn.function_call.present \/ ~turn.tool_calls.isNone) =>
        /\ wire.raised = None
        /\ ArgumentsAreStrings(wire.d)

\* C17 where api_dict returns: every `arguments` entry is a string
C17_ArgumentsAreStringsWhenReturned ==
    Wired => ArgumentsAreStrings(wire.d)

\* no top-level value of the wire form is None
NoTopLevelNone(d) ==
    /\ \A k \in DOMAIN d \ {"function_call", "tool_calls", "content", "files"} : d[k] # None
    /\ "function_call" \in DOMAIN d => ~d["function_call"].isNone
    /\ "tool_calls" \in DOMAIN d => ~d["tool_calls"].isNone

StartDelim == thought_delimiters[1]

EndDelim == thought_delimiters[2]

\* the places of a delimiter in the text
Places(x) == {i \in DOMAIN llm_text : llm_text[i] = x}

\* the first start delimiter, and the first end delimiter, of a text in
\* which the first end delimiter comes after the first start delimiter
FirstStart == Min(Places(StartDelim))

FirstEnd == Min(Places(EndDelim))

WellDelimited ==
    /\ Places(StartDelim) # {}
    /\ Places(EndDelim) # {}
    /\ FirstStart < FirstEnd

\* C14: for a text with a start delimiter and, after it, the first end
\* delimiter, get_reasoning_final returns as reasoning the text strictly
\* between the first start and the first end delimiter and as final answer
\* all the text after that end delimiter, also when text precedes the
\* start delimiter and when a delimiter occurs more than once.
C14_ReasoningBetweenFirstDelimiters ==
    (epc = "extracted" /\ WellDelimited) =>
        /\ reasoning_final.raised = None
        /\ reasoning_final.reasoning = SubSeq(llm_text, FirstStart + 1, FirstEnd - 1)
        /\ reasoning_final.final = SubSeq(llm_text, FirstEnd + 1, Len(llm_text))

\* C14 for the texts with each delimiter once: "<think>R</think>F" gives
\* ("R", "F"), also behind other text
C14_OnePairOfDelimiters ==
    (/\ epc = "extracted" /\ WellDelimited
     /\ Cardinality(Places(StartDelim)) = 1
     /\ Cardinality(Places(EndDelim)) = 1) =>
        /\ reasoning_final.raised = None
        /\ reasoning_final.reasoning = SubSeq(llm_text, FirstStart + 1, FirstEnd - 1)
        /\ reasoning_final.final = SubSeq(llm_text, FirstEnd + 1, Len(llm_text))

\* no end delimiter comes after the first start delimiter
NoEndAfterStart ==
    /\ Places(StartDelim) # {}
    /\ \A i \in Places(EndDelim) : i < FirstStart

\* C15: for a text without a start delimiter, without an end delimiter, or
\* with no end delimiter after its start delimiter (also when an end
\* delimiter comes before it), get_reasoning_final raises nothing and
\* returns ("", the text).
C15_MalformedGivesWholeText ==
    (/\ epc = "extracted"
     /\ \/ Places(StartDelim) = {}
        \/ Places(EndDelim) = {}
        \/ NoEndAfterStart) =>
        reasoning_final = Extracted(<<>>, llm_text)

\* C15 for the texts in which one of the delimiters does not occur at all
C15_AbsentGivesWholeText ==
    (epc = "extracted" /\ (Places(StartDelim) = {} \/ Places(EndDelim) = {})) =>
        reasoning_final = Extracted(<<>>, llm_text)

(***************************************************************************)
(* Claims about the model factory.                                         *)
(***************************************************************************)
\* C19: LanguageModel.create raises ValueError, and returns no model, for
\* every configuration whose class is LLMConfig itself; for None it returns
\* None; for a configuration of a subclass it returns the mock variant for
\* type "mock", the Azure variant for type "azure" and the OpenAI variant
\* for every other type tag.
C19_CreateByTypeTag ==
    cpc = "created" =>
        IF config.isNone
        THEN created.raised = None /\ created.model.isNone
        ELSE IF config.cls = "LLMConfig"
        THEN created.raised = "ValueError" /\ created.model.isNone
        ELSE /\ created.raised = None
             /\ config.type = "mock" => created.model.cls = "MockLM"
             /\ config.type = "azure" => created.model.cls = "AzureGPT"
             /\ config.type \notin {"mock", "azure", None} =>
                    created.model.cls = "OpenAIGPT"
             /\ config.type # None =>
                    ~created.model.isNone /\ created.model.config = config

\* create was given an LLMConfig of type "mock" and raised ValueError
C19_Witness ==
    /\ cpc = "created"
    /\ ~config.isNone
    /\ config.cls = "LLMConfig"
    /\ config.type = "mock"
    /\ created.raised = "ValueError"

(***************************************************************************)
(* Claims about streaming contexts.                                        *)
(***************************************************************************)
\* the contexts around model l, by their place
Around(l) == {i \in DOMAIN contexts : contexts[i].llm = l}

Max(S) == CHOOSE x \in S : \A y \in S : y <= x

\* C20: inside a StreamingIfAllowed context the model's stream setting is
\* (settings.stream and the requested value), so it is off whenever
\* settings.stream is off; and when a context has exited, normally or by
\* an exception, the model's stream setting is what it was just before the
\* context was entered, however the contexts on that model are nested.
C20_StreamingIfAllowed ==
    /\ \A l \in Llms :
           Around(l) # {} =>
               /\ llm_stream[l] = (settings_stream /\ contexts[Max(Around(l))].stream)
               /\ ~settings_stream => ~llm_stream[l]
    /\ ~exited.isNone =>
           IF Around(exited.llm) = {}
           THEN llm_stream[exited.llm] = exited.before
           ELSE /\ llm_stream[exited.llm] = exited.before
                /\ llm_stream[exited.llm] =
                       (settings_stream /\ contexts[Max(Around(exited.llm))].stream)

\* an exception has left the inner of two contexts on model "a", the inner
\* one asking for streaming and the outer one not, with settings.stream on:
\* the setting is off again
C20_Witness ==
    /\ settings_stream
    /\ ~exited.isNone
    /\ exited.llm = "a"
    /\ exited.how = "exception"
    /\ exited.before = FALSE
    /\ Len(contexts) = 1
    /\ contexts[1].llm = "a"
    /\ ~contexts[1].stream
    /\ contexts[1].before
    /\ ~llm_stream["a"]

(***************************************************************************)
(* Claims about the components of a chat history.                          *)
(***************************************************************************)
\* the list handed over starts with a system message
StartsWithSystem == given # <<>> /\ given[1].role = "system"

\* the messages after the system message, all of them if there is none
AfterSystem == IF StartsWithSystem THEN Tail(given) ELSE given

\* the last message is a user message, and not the system message
EndsWithUser == AfterSystem # <<>> /\ AfterSystem[Len(AfterSystem)].role = "user"

\* the texts of the messages strictly between the system message and the
\* final user message
Between ==
    LET n == IF EndsWithUser THEN Len(AfterSystem) - 1 ELSE Len(AfterSystem)
    IN  [i \in 1..n |-> AfterSystem[i].content]

\* ... with the text of a dummy user message in front when the message
\* after the system message is not a user message
BetweenFromUser ==
    IF AfterSystem # <<>> /\ AfterSystem[1].role # "user"
    THEN <<DUMMY_USER_PROMPT>> \o Between
    ELSE Between

\* C21: get_chat_history_components returns (system, pairs, user) and
\* leaves the caller's list as it was: system is the text of the first
\* message if that is a system message, else the dummy system prompt; user
\* is the text of the last message if that is a user message, else the
\* dummy user prompt; pairs are the (1st, 2nd), (3rd, 4th), ... texts of
\* the messages between them, behind a dummy user message when the message
\* after the system message is not a user message, a last unpaired text
\* being dropped.
C21_ChatHistoryComponents ==
    hpc = "returned" =>
        /\ chat_history = given
        /\ components.system_prompt =
               (IF StartsWithSystem THEN given[1].content ELSE DUMMY_SYS_PROMPT)
        /\ components.user_prompt =
               (IF EndsWithUser THEN AfterSystem[Len(AfterSystem)].content
                ELSE DUMMY_USER_PROMPT)
        /\ Len(components.pairs) = Len(BetweenFromUser) \div 2
        /\ \A i \in DOMAIN components.pairs :
               components.pairs[i] = <<BetweenFromUser[2 * i - 1], BetweenFromUser[2 * i]>>

\* [system, assistant "q", user "p", user "q"] gave the pair (dummy user
\* prompt, "q"), dropped the unpaired "p" and kept "q" as the user prompt
C21_Witness ==
    /\ hpc = "returned"
    /\ Len(given) = 4
    /\ given[1].role = "system"
    /\ given[2] = HistoryMessage("assistant", "q")
    /\ given[3] = HistoryMessage("user", "p")
    /\ given[4] = HistoryMessage("user", "q")
    /\ components.pairs = <<(<<DUMMY_USER_PROMPT, "q">>)>>
    /\ components.user_prompt = "q"

====
